---- MODULE Spec2Model ----
(***************************************************************************)
(* Groth-Sahai proofs for pairing product equations (gs-ppe).              *)
(*                                                                         *)
(* The bilinear group is the external collaborator (ark_ec::Pairing).  G1, *)
(* G2 and GT are cyclic groups of the same prime order P, so every element *)
(* is written as its discrete logarithm in 0..P-1 with respect to a fixed  *)
(* generator of its group: group addition is addition mod P, scalar        *)
(* multiplication is multiplication mod P, and the pairing                 *)
(* e(x*G1gen, y*G2gen) = (x*y)*GTgen is multiplication mod P.  The affine  *)
(* and projective forms of a point are two encodings of one group element, *)
(* and equality in the source is equality of group elements.               *)
(***************************************************************************)
EXTENDS Integers, Sequences, FiniteSets, TLC

VARIABLES
    cks,      \* the commitment keys [u, v], or None
    ek,       \* Ret(the extraction key <<a1, a2>>) after setup_ex, else None
    mode,     \* the key setup that ran: "setup", "setup_ex", "setup_wi"
    var,      \* the variable last committed: [grp, v]
    com,      \* its commitment: [grp, c]
    ext,      \* Ret(the value last extracted)
    ps,       \* the proof system at hand, Panic if building it panicked
    ps2,      \* a second proof system, the right operand of +
    dims,     \* the dimensions of the inputs of the last setup or +
    nrand,    \* how many times ps was re-randomized
    verdict,  \* what verify returned on ps, None before it ran
    op,       \* the last operation
    eqL, eqR, \* two equations
    eqSum,    \* their sum
    args,     \* the arguments of the last call of a constructor or operator
    res,      \* what that call returned, Panic if it panicked
    drawn     \* how many times the last setup drew from its rng

vars == <<cks, ek, mode, var, com, ext, ps, ps2, dims, nrand, verdict, op, eqL, eqR, eqSum,
          args, res, drawn>>

(* The prime order of the scalar field E::ScalarField. *)
P == 3

(* Largest number of x-variables (rows of gamma) and y-variables (columns). *)
MaxM == 1
MaxN == 1
(* Largest number of successive re-randomizations. *)
MaxRand == 3

(* Results are records so that any two of them can be compared: a panic    *)
(* (assert_eq!, unwrap, index out of bounds), a value not yet produced, and *)
(* a returned value.                                                       *)
Panic == [panicked |-> TRUE]
None == [none |-> TRUE]
Ret(v) == [ret |-> v]

Fr == 0..(P - 1)

FAdd(x, y) == (x + y) % P
FMul(x, y) == (x * y) % P
FNeg(x) == (P - x) % P
FSub(x, y) == FAdd(x, FNeg(y))

(* E::pairing(x, y) *)
pairing(x, y) == (x * y) % P

RECURSIVE SumSeq(_)
SumSeq(s) == IF s = <<>> THEN 0 ELSE FAdd(Head(s), SumSeq(Tail(s)))

(***************************************************************************)
(* Matrix: ndarray::Array2 keeps its shape (rows, cols) also when empty.   *)
(***************************************************************************)
Matrix_from_elem(rows, cols, elem) ==
    [rows |-> rows, cols |-> cols, at |-> [i \in 1..rows |-> [j \in 1..cols |-> elem]]]

Matrix_zeros_column_Transposed(n) == Matrix_from_elem(n, 0, 0)
Matrix_zeros_column(n) == Matrix_from_elem(0, n, 0)

(* Matrix::new(&[[..]; ..]) from literal rows of equal length n *)
Matrix_new(xs, n) == [rows |-> Len(xs), cols |-> n, at |-> xs]

Matrix_dim(M) == <<M.rows, M.cols>>

(* M[(i, j)] with the code's 0-based indices *)
InBounds(M, i, j) == i >= 0 /\ i < M.rows /\ j >= 0 /\ j < M.cols
Idx(M, i, j) == M.at[i + 1][j + 1]

(* All matrices of one shape with entries in Vals *)
Matrices(rows, cols, Vals) ==
    {[rows |-> rows, cols |-> cols, at |-> f] : f \in [1..rows -> [1..cols -> Vals]]}

(* The length two arrays broadcast to along one axis, -1 if they cannot: *)
(* equal lengths stay, a length of 1 stretches to the other length       *)
co_broadcast(x, y) == IF x = y THEN x ELSE IF x = 1 THEN y ELSE IF y = 1 THEN x ELSE -1

(* self.inner + rhs.inner: ndarray adds elementwise, broadcasts the two   *)
(* arrays to a common shape when their shapes differ, and panics when     *)
(* they cannot be broadcast; the Output is a Matrix, never a Result       *)
Matrix_add(A, B) ==
    LET r == co_broadcast(A.rows, B.rows)
        c == co_broadcast(A.cols, B.cols)
    IN  IF r < 0 \/ c < 0 THEN Panic
        ELSE [rows |-> r, cols |-> c,
              at |-> [i \in 1..r |-> [j \in 1..c |->
                  FAdd(A.at[IF A.rows = 1 THEN 1 ELSE i][IF A.cols = 1 THEN 1 ELSE j],
                       B.at[IF B.rows = 1 THEN 1 ELSE i][IF B.cols = 1 THEN 1 ELSE j])]]]

Matrix_neg(A) ==
    [rows |-> A.rows, cols |-> A.cols,
     at |-> [i \in 1..A.rows |-> [j \in 1..A.cols |-> FNeg(A.at[i][j])]]]

(* self.inner.outer_iter().map(|row| row.iter().cloned().collect()).collect(): *)
(* one Vec for every row, so no Vec at all for a matrix with zero rows        *)
Matrix_to_vecs(M) == [i \in 1..M.rows |-> [j \in 1..M.cols |-> M.at[i][j]]]

(* vecs.into_iter().flatten().collect() *)
RECURSIVE Flatten(_)
Flatten(vecs) == IF vecs = <<>> THEN <<>> ELSE Head(vecs) \o Flatten(Tail(vecs))

(* Array::from_shape_vec((vecs.len(), vecs[0].len()), flat).unwrap(): vecs[0] *)
(* panics on an empty Vec, and unwrap panics when the flattened length is not *)
(* rows * cols                                                                *)
Matrix_from_vecs(vecs) ==
    IF Len(vecs) = 0 THEN Panic
    ELSE LET rows == Len(vecs)
             cols == Len(vecs[1])
             flat == Flatten(vecs)
         IN  IF Len(flat) # rows * cols THEN Panic
             ELSE [rows |-> rows, cols |-> cols,
                   at |-> [i \in 1..rows |-> [j \in 1..cols |-> flat[(i - 1) * cols + j]]]]

(***************************************************************************)
(* Commitment keys.  A CommitmentKey is ((u11, u12), (u21, u22)):          *)
(* ck[1][1] = self.0.0, ck[1][2] = self.0.1, ck[2][1] = self.1.0,          *)
(* ck[2][2] = self.1.1.                                                    *)
(***************************************************************************)
CommitmentKeys_new_SharedT(g1, g2, a1, a2, t1, t2) ==
    LET u1 == <<g1, FMul(g1, a1)>>
        u2 == <<FMul(g1, t1), FMul(u1[2], t1)>>
        v1 == <<g2, FMul(g2, a2)>>
        v2 == <<FMul(g2, t1), FMul(v1[2], t1)>>
    IN  [u |-> <<u1, u2>>, v |-> <<v1, v2>>]
CommitmentKeys_new(g1, g2, a1, a2, t1, t2) ==
    LET u1 == <<g1, FMul(g1, a1)>>
        u2 == <<FMul(g1, t1), FMul(u1[2], t1)>>
        v1 == <<g2, FMul(g2, a2)>>
        v2 == <<FMul(g2, t2), FMul(v1[2], t2)>>
    IN  [u |-> <<u1, u2>>, v |-> <<v1, v2>>]

CommitmentKeys_new_wi_NoMinusOne(g1, g2, a1, a2, t1, t2) ==
    LET u1 == <<g1, FMul(g1, a1)>>
        u2 == <<FMul(g1, t1), FMul(g1, FMul(a1, t1))>>
        v1 == <<g2, FMul(g2, a2)>>
        v2 == <<FMul(g2, t2), FMul(g2, FMul(a2, t2))>>
    IN  [u |-> <<u1, u2>>, v |-> <<v1, v2>>]
CommitmentKeys_new_wi(g1, g2, a1, a2, t1, t2) ==
    LET u1 == <<g1, FMul(g1, a1)>>
        u2 == <<FMul(g1, t1), FMul(g1, FSub(FMul(a1, t1), 1))>>
        v1 == <<g2, FMul(g2, a2)>>
        v2 == <<FMul(g2, t2), FMul(g2, FSub(FMul(a2, t2), 1))>>
    IN  [u |-> <<u1, u2>>, v |-> <<v1, v2>>]

(* Randomness(r1, r2) is <<r1, r2>>; Variable is [value, rand] *)
Randomness == Fr \X Fr
Randomness_zero == <<0, 0>>
(* impl Add for Randomness *)
Randomness_add(self, other) == <<FAdd(self[1], other[1]), FAdd(self[2], other[2])>>
Variable_with_randomness(value, rand) == [value |-> value, rand |-> rand]
Variable_with_zero_randomness_Drawn(value) == Variable_with_randomness(value, <<1, 2>>)
Variable_with_zero_randomness(value) == Variable_with_randomness(value, Randomness_zero)

(* Com(ck, X, r) = (u11^r1 + u21^r2, x + u12^r1 + u22^r2) *)
CommitmentKey_commit_R1Twice(ck, x) ==
    LET r1 == x.rand[1]
        r2 == x.rand[2]
        a == FAdd(FMul(ck[1][1], r1), FMul(ck[2][1], r2))
        b == FAdd(FMul(ck[1][2], r1), FMul(ck[2][2], r1))
    IN  <<a, FAdd(x.value, b)>>
CommitmentKey_commit(ck, x) ==
    LET r1 == x.rand[1]
        r2 == x.rand[2]
        a == FAdd(FMul(ck[1][1], r1), FMul(ck[2][1], r2))
        b == FAdd(FMul(ck[1][2], r1), FMul(ck[2][2], r2))
    IN  <<a, FAdd(x.value, b)>>

(* RdCom(ck, c, r): the new commitment and the ComRandomness (original, r) *)
Com_randomize_OnlyFirst(c, ck, r) ==
    LET a == FAdd(FMul(ck[1][1], r[1]), FMul(ck[2][1], r[2]))
    IN  [com |-> <<FAdd(c[1], a), c[2]>>, cr |-> <<c, r>>]
Com_randomize_ReturnsUpdated(c, ck, r) ==
    LET a == FAdd(FMul(ck[1][1], r[1]), FMul(ck[2][1], r[2]))
        b == FAdd(FMul(ck[1][2], r[1]), FMul(ck[2][2], r[2]))
    IN  [com |-> <<FAdd(c[1], a), FAdd(c[2], b)>>, cr |-> <<<<FAdd(c[1], a), FAdd(c[2], b)>>, r>>]
Com_randomize(c, ck, r) ==
    LET a == FAdd(FMul(ck[1][1], r[1]), FMul(ck[2][1], r[2]))
        b == FAdd(FMul(ck[1][2], r[1]), FMul(ck[2][2], r[2]))
    IN  [com |-> <<FAdd(c[1], a), FAdd(c[2], b)>>, cr |-> <<c, r>>]

(* ExtractKey(a1, a2) is <<a1, a2>> *)
ExtractKey_extract_1_NoNeg(self, c) == FAdd(FMul(c[1], self[1]), c[2])
ExtractKey_extract_1(self, c) == FAdd(FMul(c[1], FNeg(self[1])), c[2])
ExtractKey_extract_2_NoNeg(self, c) == FAdd(FMul(c[1], self[2]), c[2])
ExtractKey_extract_2(self, c) == FAdd(FMul(c[1], FNeg(self[2])), c[2])

(***************************************************************************)
(* Prover (prove.rs).  The rng draws are parameters: z is the 2x2 matrix   *)
(* Matrix::rand(rng, 2, 2).                                                *)
(***************************************************************************)
(* Z (x) u, defined in (5) *)
z_u_Transposed(z, u) ==
    Matrix_new(
        <<<<FAdd(FMul(u[1][1], Idx(z, 0, 0)), FMul(u[2][1], Idx(z, 1, 0))),
            FAdd(FMul(u[1][2], Idx(z, 0, 0)), FMul(u[2][2], Idx(z, 1, 0)))>>,
          <<FAdd(FMul(u[1][1], Idx(z, 0, 1)), FMul(u[2][1], Idx(z, 1, 1))),
            FAdd(FMul(u[1][2], Idx(z, 0, 1)), FMul(u[2][2], Idx(z, 1, 1)))>>>>, 2)
z_u(z, u) ==
    Matrix_new(
        <<<<FAdd(FMul(u[1][1], Idx(z, 0, 0)), FMul(u[2][1], Idx(z, 0, 1))),
            FAdd(FMul(u[1][2], Idx(z, 0, 0)), FMul(u[2][2], Idx(z, 0, 1)))>>,
          <<FAdd(FMul(u[1][1], Idx(z, 1, 0)), FMul(u[2][1], Idx(z, 1, 1))),
            FAdd(FMul(u[1][2], Idx(z, 1, 0)), FMul(u[2][2], Idx(z, 1, 1)))>>>>, 2)

(* Z (x) v, defined in (5): transposed and negated *)
z_v_NoTranspose(z, v) ==
    Matrix_new(
        <<<<FAdd(FMul(v[1][1], FNeg(Idx(z, 0, 0))), FMul(v[2][1], FNeg(Idx(z, 0, 1)))),
            FAdd(FMul(v[1][2], FNeg(Idx(z, 0, 0))), FMul(v[2][2], FNeg(Idx(z, 0, 1))))>>,
          <<FAdd(FMul(v[1][1], FNeg(Idx(z, 1, 0))), FMul(v[2][1], FNeg(Idx(z, 1, 1)))),
            FAdd(FMul(v[1][2], FNeg(Idx(z, 1, 0))), FMul(v[2][2], FNeg(Idx(z, 1, 1))))>>>>, 2)
z_v(z, v) ==
    Matrix_new(
        <<<<FAdd(FMul(v[1][1], FNeg(Idx(z, 0, 0))), FMul(v[2][1], FNeg(Idx(z, 1, 0)))),
            FAdd(FMul(v[1][2], FNeg(Idx(z, 0, 0))), FMul(v[2][2], FNeg(Idx(z, 1, 0))))>>,
          <<FAdd(FMul(v[1][1], FNeg(Idx(z, 0, 1))), FMul(v[2][1], FNeg(Idx(z, 1, 1)))),
            FAdd(FMul(v[1][2], FNeg(Idx(z, 0, 1))), FMul(v[2][2], FNeg(Idx(z, 1, 1))))>>>>, 2)

(* The values defined in (6): t[p][q] = sum_ij gamma[(i,j)] * r_i.p * s_j.q *)
t11_t12_t21_t22(r, s, gamma) ==
    LET t(p, q) ==
            SumSeq([i \in 1..Len(r) |->
                SumSeq([j \in 1..Len(s) |->
                    FMul(FMul(Idx(gamma, i - 1, j - 1), r[i][p]), s[j][q])])])
    IN  <<<<t(1, 1), t(1, 2)>>, <<t(2, 1), t(2, 2)>>>>

(* sum_j (sum_i gamma[(i,j)] * r_i.p) * w_j : the nested folds over columns *)
ColFold(gamma, r, w, p) ==
    SumSeq([j \in 1..Len(w) |->
        FMul(w[j], SumSeq([i \in 1..Len(r) |-> FMul(Idx(gamma, i - 1, j - 1), r[i][p])]))])

(* sum_i (sum_j gamma[(i,j)] * s_j.q) * w_i : the nested folds over rows *)
RowFold(gamma, s, w, q) ==
    SumSeq([i \in 1..Len(w) |->
        FMul(w[i], SumSeq([j \in 1..Len(s) |-> FMul(Idx(gamma, i - 1, j - 1), s[j][q])]))])

(* zip(k, r).fold(zero, |acc, (k_i, r_i)| acc + k_i * r_i.p) *)
Min(x, y) == IF x < y THEN x ELSE y
ZipFold(k, r, p) == SumSeq([i \in 1..Min(Len(k), Len(r)) |-> FMul(k[i], r[i][p])])

(* Some index gamma[(i, j)] with i < nr, j < nc lies outside gamma *)
GammaOutOfBounds(gamma, nr, nc) ==
    \E i \in 0..(nr - 1), j \in 0..(nc - 1) : ~InBounds(gamma, i, j)

Proof_new_AssertsAsDocumented(z, ck, equ, x, y) ==
    IF Len(equ.a) # Len(x) \/ Len(equ.b) # Len(y) THEN Panic
    ELSE IF GammaOutOfBounds(equ.gamma, Len(x), Len(y)) THEN Panic
    ELSE
    LET r == [i \in 1..Len(x) |-> x[i].rand]
        s == [j \in 1..Len(y) |-> y[j].rand]
        xv == [i \in 1..Len(x) |-> x[i].value]
        yv == [j \in 1..Len(y) |-> y[j].value]
        t == t11_t12_t21_t22(r, s, equ.gamma)
        v == ck.v
        phi1(p) == FAdd(FMul(v[1][1], t[p][1]), FMul(v[2][1], t[p][2]))
        phi2(p) == FAdd(FAdd(FAdd(FMul(v[1][2], t[p][1]), FMul(v[2][2], t[p][2])),
                             ZipFold(equ.b, r, p)),
                        ColFold(equ.gamma, r, yv, p))
        theta2(q) == FAdd(ZipFold(equ.a, s, q), RowFold(equ.gamma, s, xv, q))
        phi == Matrix_add(Matrix_new(<<<<phi1(1), phi2(1)>>, <<phi1(2), phi2(2)>>>>, 2),
                          z_v(z, ck.v))
        theta == Matrix_add(Matrix_new(<<<<0, theta2(1)>>, <<0, theta2(2)>>>>, 2),
                            z_u(z, ck.u))
    IN  [phi |-> phi, theta |-> theta]

(* Prove(ck, E, (X, r), (Y, s)) *)
Proof_new(z, ck, equ, x, y) ==
    IF Len(equ.a) # Len(y) \/ Len(equ.b) # Len(x) THEN Panic
    ELSE IF GammaOutOfBounds(equ.gamma, Len(x), Len(y)) THEN Panic
    ELSE
    LET r == [i \in 1..Len(x) |-> x[i].rand]
        s == [j \in 1..Len(y) |-> y[j].rand]
        xv == [i \in 1..Len(x) |-> x[i].value]
        yv == [j \in 1..Len(y) |-> y[j].value]
        t == t11_t12_t21_t22(r, s, equ.gamma)
        v == ck.v
        phi1(p) == FAdd(FMul(v[1][1], t[p][1]), FMul(v[2][1], t[p][2]))
        phi2(p) == FAdd(FAdd(FAdd(FMul(v[1][2], t[p][1]), FMul(v[2][2], t[p][2])),
                             ZipFold(equ.b, r, p)),
                        ColFold(equ.gamma, r, yv, p))
        theta2(q) == FAdd(ZipFold(equ.a, s, q), RowFold(equ.gamma, s, xv, q))
        phi == Matrix_add(Matrix_new(<<<<phi1(1), phi2(1)>>, <<phi1(2), phi2(2)>>>>, 2),
                          z_v(z, ck.v))
        theta == Matrix_add(Matrix_new(<<<<0, theta2(1)>>, <<0, theta2(2)>>>>, 2),
                            z_u(z, ck.u))
    IN  [phi |-> phi, theta |-> theta]

(* RdProof(ck, E, (c, r), (d, s), pi); cr and ds are sequences of <<Com, Randomness>> *)
Proof_randomize(self, z, ck, equ, cr, ds) ==
    IF Len(equ.a) # Len(ds) \/ Len(equ.b) # Len(cr) THEN Panic
    ELSE IF GammaOutOfBounds(equ.gamma, Len(cr), Len(ds)) THEN Panic
    ELSE
    LET c1 == [i \in 1..Len(cr) |-> cr[i][1][1]]
        c2 == [i \in 1..Len(cr) |-> cr[i][1][2]]
        d1 == [j \in 1..Len(ds) |-> ds[j][1][1]]
        d2 == [j \in 1..Len(ds) |-> ds[j][1][2]]
        r == [i \in 1..Len(cr) |-> cr[i][2]]
        s == [j \in 1..Len(ds) |-> ds[j][2]]
        t == t11_t12_t21_t22(r, s, equ.gamma)
        v == ck.v
        phi1(p) == FAdd(ColFold(equ.gamma, r, d1, p),
                        FAdd(FMul(v[1][1], t[p][1]), FMul(v[2][1], t[p][2])))
        phi2(p) == FAdd(FAdd(ZipFold(equ.b, r, p), ColFold(equ.gamma, r, d2, p)),
                        FAdd(FMul(v[1][2], t[p][1]), FMul(v[2][2], t[p][2])))
        theta1(q) == RowFold(equ.gamma, s, c1, q)
        theta2(q) == FAdd(ZipFold(equ.a, s, q), RowFold(equ.gamma, s, c2, q))
        phi == Matrix_add(
                   Matrix_add(self.phi,
                              Matrix_new(<<<<phi1(1), phi2(1)>>, <<phi1(2), phi2(2)>>>>, 2)),
                   z_v(z, ck.v))
        theta == Matrix_add(
                     Matrix_add(self.theta,
                                Matrix_new(<<<<theta1(1), theta2(1)>>,
                                             <<theta1(2), theta2(2)>>>>, 2)),
                     z_u(z, ck.u))
    IN  [phi |-> phi, theta |-> theta]

(* impl Add for Proof *)
Proof_add_Appends(self, other) ==
    [phi |-> Matrix_new(self.phi.at \o other.phi.at, self.phi.cols),
     theta |-> Matrix_new(self.theta.at \o other.theta.at, self.theta.cols)]
Proof_add(self, other) ==
    LET phi == Matrix_add(self.phi, other.phi)
        theta == Matrix_add(self.theta, other.theta)
    IN  IF phi = Panic \/ theta = Panic THEN Panic ELSE [phi |-> phi, theta |-> theta]

(* impl Div for Proof *)
Proof_div_NoNeg(self, other) == Proof_add(self, other)
Proof_div(self, other) ==
    LET phi == Matrix_add(self.phi, Matrix_neg(other.phi))
        theta == Matrix_add(self.theta, Matrix_neg(other.theta))
    IN  IF phi = Panic \/ theta = Panic THEN Panic ELSE [phi |-> phi, theta |-> theta]

(***************************************************************************)
(* Equation (equation.rs): [a, b, gamma, target]                           *)
(***************************************************************************)
Equation_new_DimsSwapped(a, b, gamma, target) ==
    IF Matrix_dim(gamma) # <<Len(a), Len(b)>> THEN Panic
    ELSE [a |-> a, b |-> b, gamma |-> gamma, target |-> target]
Equation_new(a, b, gamma, target) ==
    IF Matrix_dim(gamma) # <<Len(b), Len(a)>> THEN Panic
    ELSE [a |-> a, b |-> b, gamma |-> gamma, target |-> target]

(* The dimension gate of verify: TRUE when the inputs are rejected *)
verify_gate_NoCLen(self, c, d, proof) ==
    LET m == self.gamma.rows
        n == self.gamma.cols
    IN  \/ Len(self.a) # n
        \/ Len(self.b) # m
        \/ Len(d) # n
        \/ Matrix_dim(proof.phi) # <<2, 2>>
        \/ Matrix_dim(proof.theta) # <<2, 2>>
verify_gate(self, c, d, proof) ==
    LET m == self.gamma.rows
        n == self.gamma.cols
    IN  \/ Len(self.a) # n
        \/ Len(self.b) # m
        \/ Len(c) # m
        \/ Len(d) # n
        \/ Matrix_dim(proof.phi) # <<2, 2>>
        \/ Matrix_dim(proof.theta) # <<2, 2>>

(* d.iter().enumerate().fold(zero, |acc, (j, d_j)| acc + d_j.k * gamma[(i, j)]) *)
d_product(self, d, i, k) ==
    SumSeq([j \in 1..Len(d) |-> FMul(d[j][k], Idx(self.gamma, i - 1, j - 1))])

(* c.iter().enumerate().fold(zero, |acc, (i, c_i)| acc + c_i.1 * gamma[(i, j)]) *)
c_product(self, c, j) ==
    SumSeq([i \in 1..Len(c) |-> FMul(c[i][2], Idx(self.gamma, i - 1, j - 1))])

(* b_d[i] = b_i + prod_j d_j2^gamma_ij, one entry for every c_i *)
b_d(self, c, d) == [i \in 1..Len(c) |-> FAdd(self.b[i], d_product(self, d, i, 2))]

(* The right-hand sides: row k of the key pairs with column q of phi and theta *)
verify_rhs(ck, proof, k, q) ==
    FAdd(FAdd(FAdd(pairing(ck.u[1][k], Idx(proof.phi, 0, q - 1)),
                   pairing(ck.u[2][k], Idx(proof.phi, 1, q - 1))),
              pairing(Idx(proof.theta, 0, k - 1), ck.v[1][q])),
         pairing(Idx(proof.theta, 1, k - 1), ck.v[2][q]))

(* Equation 1 *)
verify_eq1_Skipped(self, ck, c, d, proof) == TRUE
verify_eq1(self, ck, c, d, proof) ==
    LET lhs == SumSeq([i \in 1..Len(c) |-> pairing(c[i][1], d_product(self, d, i, 1))])
        rhs == verify_rhs(ck, proof, 1, 1)
    IN  lhs = rhs

(* Equation 2 *)
verify_eq2(self, ck, c, d, proof) ==
    LET lhs == SumSeq([i \in 1..Len(c) |-> pairing(c[i][1], b_d(self, c, d)[i])])
        rhs == verify_rhs(ck, proof, 1, 2)
    IN  lhs = rhs

(* Equation 3 *)
verify_eq3(self, ck, c, d, proof) ==
    LET lhs == SumSeq([j \in 1..Len(d) |->
                   pairing(FAdd(self.a[j], c_product(self, c, j)), d[j][1])])
        rhs == verify_rhs(ck, proof, 2, 1)
    IN  lhs = rhs

(* Equation 4 *)
verify_eq4_IgnoresTarget(self, ck, c, d, proof) ==
    LET a_d == SumSeq([j \in 1..Min(Len(self.a), Len(d)) |-> pairing(self.a[j], d[j][2])])
        c_bd == SumSeq([i \in 1..Len(c) |-> pairing(c[i][2], b_d(self, c, d)[i])])
        lhs == FAdd(a_d, c_bd)
        rhs == verify_rhs(ck, proof, 2, 2)
    IN  lhs = rhs
verify_eq4_Inverted(self, ck, c, d, proof) ==
    LET a_d == SumSeq([j \in 1..Min(Len(self.a), Len(d)) |-> pairing(self.a[j], d[j][2])])
        c_bd == SumSeq([i \in 1..Len(c) |-> pairing(c[i][2], b_d(self, c, d)[i])])
        lhs == FAdd(a_d, c_bd)
        rhs == FAdd(self.target, verify_rhs(ck, proof, 2, 2))
    IN  lhs # rhs
verify_eq4(self, ck, c, d, proof) ==
    LET a_d == SumSeq([j \in 1..Min(Len(self.a), Len(d)) |-> pairing(self.a[j], d[j][2])])
        c_bd == SumSeq([i \in 1..Len(c) |-> pairing(c[i][2], b_d(self, c, d)[i])])
        lhs == FAdd(a_d, c_bd)
        rhs == FAdd(self.target, verify_rhs(ck, proof, 2, 2))
    IN  lhs = rhs

(* Reading the entries row k / column q of phi and theta for a right-hand side panics *)
rhs_panics(proof, k, q) ==
    \/ ~InBounds(proof.phi, 0, q - 1)
    \/ ~InBounds(proof.phi, 1, q - 1)
    \/ ~InBounds(proof.theta, 0, k - 1)
    \/ ~InBounds(proof.theta, 1, k - 1)

(* An index read while evaluating equation 1, 2 (with b_d), 3 or 4 is out of bounds *)
verify_panics(self, c, d, proof, step) ==
    CASE step = 1 -> GammaOutOfBounds(self.gamma, Len(c), Len(d)) \/ rhs_panics(proof, 1, 1)
      [] step = 2 -> Len(c) > Len(self.b) \/ rhs_panics(proof, 1, 2)
      [] step = 3 -> Len(d) > Len(self.a) \/ rhs_panics(proof, 2, 1)
      [] step = 4 -> rhs_panics(proof, 2, 2)

(* Verify(ck, E, c, d, (phi, theta)): Ret(TRUE), Ret(FALSE), or Panic *)
Equation_verify(self, ck, c, d, proof) ==
    IF verify_gate(self, c, d, proof) THEN Ret(FALSE)
    ELSE IF verify_panics(self, c, d, proof, 1) THEN Panic
    ELSE IF ~verify_eq1(self, ck, c, d, proof) THEN Ret(FALSE)
    ELSE IF verify_panics(self, c, d, proof, 2) THEN Panic
    ELSE IF ~verify_eq2(self, ck, c, d, proof) THEN Ret(FALSE)
    ELSE IF verify_panics(self, c, d, proof, 3) THEN Panic
    ELSE IF ~verify_eq3(self, ck, c, d, proof) THEN Ret(FALSE)
    ELSE IF verify_panics(self, c, d, proof, 4) THEN Panic
    ELSE Ret(verify_eq4(self, ck, c, d, proof))

(***************************************************************************)
(* impl Add for Equation.  ndarray's append(axis, other) returns a shape   *)
(* error unless the two arrays agree on every axis but the one appended    *)
(* along; unwrap() turns the error into a panic.                           *)
(***************************************************************************)
ShapeError == [err |-> "IncompatibleShape"]

Array_append(axis, A, B) ==
    IF A = ShapeError \/ B = ShapeError THEN ShapeError
    ELSE IF axis = 1
    THEN IF A.rows # B.rows THEN ShapeError
         ELSE [rows |-> A.rows, cols |-> A.cols + B.cols,
               at |-> [i \in 1..A.rows |-> A.at[i] \o B.at[i]]]
    ELSE IF A.cols # B.cols THEN ShapeError
         ELSE [rows |-> A.rows + B.rows, cols |-> A.cols, at |-> A.at \o B.at]

Equation_add(self, rhs) ==
    LET a == self.a \o rhs.a
        b == self.b \o rhs.b
        target == FAdd(self.target, rhs.target)
        m == self.gamma.rows
        n == self.gamma.cols
        m_prime == rhs.gamma.rows
        n_prime == rhs.gamma.cols
        zeros12 == Matrix_from_elem(m_prime, n_prime, 0)
        gamma2 == Matrix_from_elem(m, n, 0)
        gamma1_ == Array_append(1, self.gamma, zeros12)
        gamma2_ == Array_append(1, gamma2, rhs.gamma)
        gamma == Array_append(0, gamma1_, gamma2_)
    IN  IF gamma = ShapeError THEN Panic
        ELSE [a |-> a, b |-> b, gamma |-> gamma, target |-> target]

(***************************************************************************)
(* The proof system facade (lib.rs): [equation, c, d, proof]               *)
(***************************************************************************)
(* setup(rng, cks, ay, xb, gamma); ay is a sequence of <<a, Variable>>, xb of *)
(* <<Variable, b>>, z the matrix Proof::new draws                            *)
setup_TargetWithoutGamma(z, ck, ay, xb, gamma) ==
    IF Matrix_dim(gamma) # <<Len(xb), Len(ay)>> THEN Panic
    ELSE
    LET ay_product == SumSeq([j \in 1..Len(ay) |-> pairing(ay[j][1], ay[j][2].value)])
        xb_product == SumSeq([i \in 1..Len(xb) |-> pairing(xb[i][1].value, xb[i][2])])
        x == [i \in 1..Len(xb) |-> xb[i][1]]
        y == [j \in 1..Len(ay) |-> ay[j][2]]
        target == FAdd(ay_product, xb_product)
        a == [j \in 1..Len(ay) |-> ay[j][1]]
        b == [i \in 1..Len(xb) |-> xb[i][2]]
        equation == [a |-> a, b |-> b, gamma |-> gamma, target |-> target]
        c == [i \in 1..Len(x) |-> CommitmentKey_commit(ck.u, x[i])]
        d == [j \in 1..Len(y) |-> CommitmentKey_commit(ck.v, y[j])]
        proof == Proof_new(z, ck, equation, x, y)
    IN  IF proof = Panic THEN Panic
        ELSE [equation |-> equation, c |-> c, d |-> d, proof |-> proof]
setup(z, ck, ay, xb, gamma) ==
    IF Matrix_dim(gamma) # <<Len(xb), Len(ay)>> THEN Panic
    ELSE
    LET ay_product == SumSeq([j \in 1..Len(ay) |-> pairing(ay[j][1], ay[j][2].value)])
        xb_product == SumSeq([i \in 1..Len(xb) |-> pairing(xb[i][1].value, xb[i][2])])
        x == [i \in 1..Len(xb) |-> xb[i][1]]
        y == [j \in 1..Len(ay) |-> ay[j][2]]
        xy_product ==
            SumSeq([j \in 1..Len(y) |->
                SumSeq([i \in 1..Len(x) |->
                    FMul(pairing(x[i].value, y[j].value), Idx(gamma, i - 1, j - 1))])])
        target == FAdd(FAdd(ay_product, xb_product), xy_product)
        a == [j \in 1..Len(ay) |-> ay[j][1]]
        b == [i \in 1..Len(xb) |-> xb[i][2]]
        equation == [a |-> a, b |-> b, gamma |-> gamma, target |-> target]
        c == [i \in 1..Len(x) |-> CommitmentKey_commit(ck.u, x[i])]
        d == [j \in 1..Len(y) |-> CommitmentKey_commit(ck.v, y[j])]
        proof == Proof_new(z, ck, equation, x, y)
    IN  IF proof = Panic THEN Panic
        ELSE [equation |-> equation, c |-> c, d |-> d, proof |-> proof]

(* How many times setup draws from its rng: once, the matrix Z of Proof::new, *)
(* and only after the assertion on the dimensions has passed                *)
setup_draws_BeforeAssert(ay, xb, gamma) == 1
setup_draws(ay, xb, gamma) ==
    IF Matrix_dim(gamma) # <<Len(xb), Len(ay)>> THEN 0 ELSE 1

(* ProofSystem::randomize; rs and ss are the draws of Com::randomize for c and d *)
ProofSystem_randomize_Reversed(self, z, ck, rs, ss) ==
    LET rc == [i \in 1..Len(self.c) |-> Com_randomize(self.c[i], ck.u, rs[i])]
        rd == [j \in 1..Len(self.d) |-> Com_randomize(self.d[j], ck.v, ss[j])]
        cr == [i \in 1..Len(self.c) |-> rc[Len(self.c) + 1 - i].cr]
        ds == [j \in 1..Len(self.d) |-> rd[Len(self.d) + 1 - j].cr]
        proof == Proof_randomize(self.proof, z, ck, self.equation, cr, ds)
    IN  IF proof = Panic THEN Panic
        ELSE [equation |-> self.equation,
              c |-> [i \in 1..Len(self.c) |-> rc[i].com],
              d |-> [j \in 1..Len(self.d) |-> rd[j].com],
              proof |-> proof]
ProofSystem_randomize(self, z, ck, rs, ss) ==
    LET rc == [i \in 1..Len(self.c) |-> Com_randomize(self.c[i], ck.u, rs[i])]
        rd == [j \in 1..Len(self.d) |-> Com_randomize(self.d[j], ck.v, ss[j])]
        cr == [i \in 1..Len(self.c) |-> rc[i].cr]
        ds == [j \in 1..Len(self.d) |-> rd[j].cr]
        proof == Proof_randomize(self.proof, z, ck, self.equation, cr, ds)
    IN  IF proof = Panic THEN Panic
        ELSE [equation |-> self.equation,
              c |-> [i \in 1..Len(self.c) |-> rc[i].com],
              d |-> [j \in 1..Len(self.d) |-> rd[j].com],
              proof |-> proof]

(* impl Add for ProofSystem *)
ProofSystem_add_Swapped(self, other) ==
    LET equation == Equation_add(self.equation, other.equation)
        proof == Proof_add(self.proof, other.proof)
    IN  IF equation = Panic \/ proof = Panic THEN Panic
        ELSE [equation |-> equation,
              c |-> other.c \o self.c,
              d |-> other.d \o self.d,
              proof |-> proof]
ProofSystem_add_DropsD(self, other) ==
    LET equation == Equation_add(self.equation, other.equation)
        proof == Proof_add(self.proof, other.proof)
    IN  IF equation = Panic \/ proof = Panic THEN Panic
        ELSE [equation |-> equation,
              c |-> self.c \o other.c,
              d |-> self.d,
              proof |-> proof]
ProofSystem_add(self, other) ==
    LET equation == Equation_add(self.equation, other.equation)
        proof == Proof_add(self.proof, other.proof)
    IN  IF equation = Panic \/ proof = Panic THEN Panic
        ELSE [equation |-> equation,
              c |-> self.c \o other.c,
              d |-> self.d \o other.d,
              proof |-> proof]

(***************************************************************************)
(* Inputs.  Scalars and group elements range over the whole field where    *)
(* the state space allows it, and over the pools below where it does not.  *)
(***************************************************************************)
Modes == {"setup", "setup_ex", "setup_wi"}

(* <<g1, g2, a1, a2, t1, t2>> *)
AllKeyParams == Fr \X Fr \X Fr \X Fr \X Fr \X Fr
KeyPool ==
    {<<1, 1, 1, 2, 1, 2>>, <<1, 2, 2, 1, 2, 2>>, <<2, 1, 0, 2, 1, 0>>, <<2, 2, 2, 2, 2, 1>>}
RandPool == {<<1, 2>>, <<2, 0>>}
Zero2x2 == Matrix_from_elem(2, 2, 0)
ZPool == {Matrix_new(<<<<1, 2>>, <<0, 1>>>>, 2), Matrix_new(<<<<2, 1>>, <<2, 0>>>>, 2)}

(* <<a, y>> and <<x, b>> *)
AYPool == {<<1, Variable_with_randomness(2, <<1, 2>>)>>,
           <<2, Variable_with_randomness(1, <<2, 1>>)>>,
           <<0, Variable_with_zero_randomness(2)>>}
XBPool == {<<Variable_with_randomness(1, <<2, 2>>), 2>>,
           <<Variable_with_randomness(2, <<0, 1>>), 1>>,
           <<Variable_with_zero_randomness(1), 0>>}

Gammas(m, n, Vals) == IF m = 0 THEN {Matrix_zeros_column(n)} ELSE Matrices(m, n, Vals)

AllDims == (0..MaxM) \X (0..MaxN)

(***************************************************************************)
(* Operations                                                              *)
(***************************************************************************)
Init ==
    /\ cks = None /\ ek = None /\ mode = "none"
    /\ var = None /\ com = None /\ ext = None
    /\ ps = None /\ ps2 = None /\ dims = <<>> /\ nrand = 0 /\ verdict = None
    /\ op = "init"
    /\ eqL = None /\ eqR = None /\ eqSum = None
    /\ args = None /\ res = None /\ drawn = 0

(* CommitmentKeys::setup, setup_ex, setup_wi with the generators and the *)
(* four scalars drawn by the rng                                          *)
CommitmentKeys_setup(m, g1, g2, a1, a2, t1, t2) ==
    IF m = "setup_wi" THEN CommitmentKeys_new_wi(g1, g2, a1, a2, t1, t2)
    ELSE CommitmentKeys_new(g1, g2, a1, a2, t1, t2)

KeyGen(Ms, Params) ==
    /\ cks = None
    /\ \E m \in Ms, k \in Params :
          /\ cks' = CommitmentKeys_setup(m, k[1], k[2], k[3], k[4], k[5], k[6])
          /\ ek' = IF m = "setup_ex" THEN Ret(<<k[3], k[4]>>) ELSE None
          /\ mode' = m
    /\ op' = "keygen"
    /\ UNCHANGED <<var, com, ext, ps, ps2, dims, nrand, verdict, eqL, eqR, eqSum,
                 args, res, drawn>>

(* cks.u.commit(&x) and cks.v.commit(&y) *)
Commit ==
    /\ cks # None
    /\ \E g \in {1, 2}, value \in Fr, rand \in Randomness :
          LET x == Variable_with_randomness(value, rand)
          IN  /\ var' = [grp |-> g, v |-> x]
              /\ com' = [grp |-> g,
                         c |-> CommitmentKey_commit(IF g = 1 THEN cks.u ELSE cks.v, x)]
    /\ ext' = None
    /\ op' = "commit"
    /\ UNCHANGED <<cks, ek, mode, ps, ps2, dims, nrand, verdict, eqL, eqR, eqSum,
                 args, res, drawn>>

(* ek.extract_1(&c) and ek.extract_2(&d) *)
Extract ==
    /\ ek # None /\ com # None /\ ext = None
    /\ ext' = Ret(IF com.grp = 1 THEN ExtractKey_extract_1(ek.ret, com.c)
                  ELSE ExtractKey_extract_2(ek.ret, com.c))
    /\ op' = "extract"
    /\ UNCHANGED <<cks, ek, mode, var, com, ps, ps2, dims, nrand, verdict, eqL, eqR, eqSum,
                 args, res, drawn>>

(* The top-level setup on well-formed inputs: gamma.dim() = (|xb|, |ay|) *)
SetupWith(Dims, AYs, XBs, Vals, Zs) ==
    /\ cks # None /\ ps = None
    /\ \E dm \in Dims :
          \E ay \in [1..dm[2] -> AYs], xb \in [1..dm[1] -> XBs],
             gamma \in Gammas(dm[1], dm[2], Vals), z \in Zs :
             /\ ps' = setup(z, cks, ay, xb, gamma)
             /\ dims' = dm
             /\ args' = [ay |-> ay, xb |-> xb, gamma |-> gamma, z |-> z]
             /\ drawn' = setup_draws(ay, xb, gamma)
    /\ nrand' = 0 /\ verdict' = None /\ op' = "setup"
    /\ UNCHANGED <<cks, ek, mode, var, com, ext, ps2, eqL, eqR, eqSum, res>>

Setup == SetupWith(AllDims, AYPool, XBPool, Fr, ZPool)

(* Equation::verify on the proof system at hand *)
Verify ==
    /\ cks # None /\ ps # None /\ ps # Panic /\ verdict = None
    /\ verdict' = Equation_verify(ps.equation, cks, ps.c, ps.d, ps.proof)
    /\ UNCHANGED <<cks, ek, mode, var, com, ext, ps, ps2, dims, nrand, op, eqL, eqR, eqSum,
                 args, res, drawn>>

(* ProofSystem::randomize with the draws of Com::randomize and Proof::randomize *)
Randomize ==
    /\ cks # None /\ ps # None /\ ps # Panic /\ verdict = None /\ nrand < MaxRand
    /\ \E rs \in [1..Len(ps.c) -> RandPool], ss \in [1..Len(ps.d) -> RandPool], z \in ZPool :
          ps' = ProofSystem_randomize(ps, z, cks, rs, ss)
    /\ nrand' = nrand + 1 /\ verdict' = None /\ op' = "randomize"
    /\ UNCHANGED <<cks, ek, mode, var, com, ext, ps2, dims, eqL, eqR, eqSum,
                 args, res, drawn>>

Next == KeyGen(Modes, KeyPool) \/ Setup \/ Verify

Spec == Init /\ [][Next]_vars

(***************************************************************************)
(* Commitments and extraction under every key                              *)
(***************************************************************************)
NextCom == KeyGen(Modes, AllKeyParams) \/ Commit \/ Extract

SpecCom == Init /\ [][NextCom]_vars

(***************************************************************************)
(* Re-randomization of a few proof systems of each shape                   *)
(***************************************************************************)
RandDims == {<<1, 1>>, <<2, 1>>, <<1, 2>>, <<0, 1>>, <<1, 0>>}
RandKeyPool == {<<1, 2, 2, 1, 2, 2>>}
RandAYPool == {<<1, Variable_with_randomness(2, <<1, 2>>)>>}
RandXBPool == {<<Variable_with_randomness(1, <<2, 2>>), 2>>}

SetupForRand == SetupWith(RandDims, RandAYPool, RandXBPool, {1, 2}, {Zero2x2})

NextRand == KeyGen({"setup", "setup_wi"}, RandKeyPool) \/ SetupForRand \/ Randomize \/ Verify

SpecRand == Init /\ [][NextRand]_vars

(***************************************************************************)
(* Sums of two proof systems built under the same keys                     *)
(***************************************************************************)
AddKeyPool == {<<1, 2, 2, 1, 2, 2>>, <<2, 1, 1, 2, 1, 0>>}

SetupForAdd == SetupWith(AllDims, AYPool, XBPool, {0, 2}, {Matrix_new(<<<<1, 2>>, <<0, 1>>>>, 2)})

(* The right operand: a second setup under the same keys *)
Setup2 ==
    /\ cks # None /\ ps # None /\ ps # Panic /\ ps2 = None /\ op = "setup"
    /\ \E dm \in AllDims :
          \E ay \in [1..dm[2] -> {<<2, Variable_with_randomness(1, <<0, 2>>)>>}],
             xb \in [1..dm[1] -> {<<Variable_with_randomness(2, <<1, 1>>), 1>>}],
             gamma \in Gammas(dm[1], dm[2], {1}) :
             /\ ps2' = setup(Matrix_new(<<<<2, 1>>, <<2, 0>>>>, 2), cks, ay, xb, gamma)
             /\ dims' = dims \o dm
    /\ op' = "setup2"
    /\ UNCHANGED <<cks, ek, mode, var, com, ext, ps, nrand, verdict, eqL, eqR, eqSum,
                 args, res, drawn>>

(* proof_system_1 + proof_system_2: both operands are moved into the sum *)
Add ==
    /\ ps # None /\ ps # Panic /\ ps2 # None /\ ps2 # Panic
    /\ ps' = ProofSystem_add(ps, ps2)
    /\ ps2' = None
    /\ verdict' = None /\ op' = "add"
    /\ UNCHANGED <<cks, ek, mode, var, com, ext, dims, nrand, eqL, eqR, eqSum,
                 args, res, drawn>>

NextAdd == KeyGen(Modes, AddKeyPool) \/ SetupForAdd \/ Setup2 \/ Add \/ Verify

SpecAdd == Init /\ [][NextAdd]_vars

(***************************************************************************)
(* Sums of two equations                                                   *)
(***************************************************************************)
Equations(m, n) ==
    {Equation_new(a, b, gamma, target) :
        a \in [1..n -> Fr], b \in [1..m -> Fr], gamma \in Gammas(m, n, Fr), target \in Fr}

WellFormedEquations == UNION {Equations(dm[1], dm[2]) : dm \in AllDims}

InitEq ==
    /\ cks = None /\ ek = None /\ mode = "none"
    /\ var = None /\ com = None /\ ext = None
    /\ ps = None /\ ps2 = None /\ dims = <<>> /\ nrand = 0 /\ verdict = None
    /\ op = "init"
    /\ eqL \in WellFormedEquations /\ eqR \in WellFormedEquations /\ eqSum = None
    /\ args = None /\ res = None /\ drawn = 0

(* E + E' *)
EqAdd ==
    /\ eqL # None /\ eqR # None /\ eqSum = None
    /\ eqSum' = Equation_add(eqL, eqR)
    /\ op' = "eqadd"
    /\ UNCHANGED <<cks, ek, mode, var, com, ext, ps, ps2, dims, nrand, verdict, eqL, eqR,
                 args, res, drawn>>

SpecEq == InitEq /\ [][EqAdd]_vars

(***************************************************************************)
(* Tampering with one element of a proof that verifies                     *)
(***************************************************************************)
(* every generator and every t, the identity and zero included *)
TamperKeyPool ==
    {<<g1, g2, a[1], a[2], t1, t2>> :
        g1 \in Fr, g2 \in Fr, a \in {<<2, 1>>, <<0, 0>>}, t1 \in Fr, t2 \in Fr}

SetupForTamper ==
    SetupWith({<<1, 1>>, <<1, 0>>, <<0, 1>>},
              {<<1, Variable_with_randomness(2, <<1, 2>>)>>},
              {<<Variable_with_randomness(1, <<2, 2>>), 2>>},
              Fr, {Matrix_new(<<<<1, 2>>, <<0, 1>>>>, 2)})

(* Replace the entry (p, q) of phi or of theta by a different group element *)
Tamper ==
    /\ op = "setup" /\ verdict = Ret(TRUE)
    /\ \E which \in {"phi", "theta"}, p \in 1..2, q \in 1..2, delta \in 1..(P - 1) :
          LET M == ps.proof[which]
              M2 == [M EXCEPT !.at[p][q] = FAdd(@, delta)]
          IN  ps' = [ps EXCEPT !.proof[which] = M2]
    /\ verdict' = None /\ op' = "tamper"
    /\ UNCHANGED <<cks, ek, mode, var, com, ext, ps2, dims, nrand, eqL, eqR, eqSum,
                 args, res, drawn>>

NextTamper == KeyGen({"setup", "setup_wi"}, TamperKeyPool) \/ SetupForTamper \/ Tamper \/ Verify

SpecTamper == Init /\ [][NextTamper]_vars

(***************************************************************************)
(* Equation::verify on inputs of any shape and on any proof                *)
(***************************************************************************)
ProofShapes == {<<2, 2>>, <<1, 2>>, <<2, 1>>, <<3, 3>>}
Ones(n) == [i \in 1..n |-> 1]
Coms(n) == [i \in 1..n |-> <<1, 2>>]

(* inputs whose lengths and shapes need not agree *)
ShapeInputs ==
    {[equation |-> [a |-> Ones(la), b |-> Ones(lb),
                    gamma |-> Matrix_from_elem(dm[1], dm[2], 1), target |-> 1],
      c |-> Coms(lc), d |-> Coms(ld),
      proof |-> [phi |-> Matrix_from_elem(sp[1], sp[2], 1),
                 theta |-> Matrix_from_elem(st[1], st[2], 1)]] :
        la \in 0..MaxN, lb \in 0..MaxM, lc \in 0..MaxM, ld \in 0..MaxN,
        dm \in AllDims, sp \in ProofShapes, st \in ProofShapes}

(* 1 x 1 inputs of the right shape with any phi *)
ValueInputs ==
    {[equation |-> [a |-> <<1>>, b |-> <<2>>,
                    gamma |-> Matrix_from_elem(1, 1, g), target |-> T],
      c |-> <<c>>, d |-> <<<<2, 1>>>>,
      proof |-> [phi |-> phi, theta |-> theta]] :
        g \in {0, 2}, T \in Fr, c \in {<<1, 2>>, <<0, 1>>},
        phi \in Matrices(2, 2, Fr),
        theta \in {Zero2x2, Matrix_new(<<<<1, 2>>, <<0, 1>>>>, 2),
                   Matrix_new(<<<<0, 1>>, <<2, 2>>>>, 2)}}

InitVerify ==
    /\ \E m \in {"setup", "setup_wi"}, k \in KeyPool :
          /\ cks = CommitmentKeys_setup(m, k[1], k[2], k[3], k[4], k[5], k[6])
          /\ mode = m
    /\ ek = None
    /\ var = None /\ com = None /\ ext = None
    /\ ps \in ShapeInputs \cup ValueInputs
    /\ ps2 = None /\ dims = <<>> /\ nrand = 0 /\ verdict = None
    /\ op = "untrusted"
    /\ eqL = None /\ eqR = None /\ eqSum = None
    /\ args = None /\ res = None /\ drawn = 0

SpecVerify == InitVerify /\ [][Verify]_vars

(***************************************************************************)
(* Sums of three equations in both groupings                               *)
(***************************************************************************)
AssocEquations ==
    UNION {{Equation_new(a, b, gamma, target) :
                a \in [1..dm[2] -> {1}], b \in [1..dm[1] -> {2}],
                gamma \in Gammas(dm[1], dm[2], {1, 2}), target \in {0, 1}} :
           dm \in AllDims}

(* x + y inside a larger expression: a panic of an operand unwinds the whole *)
Equation_add_unwind(x, y) == IF x = Panic \/ y = Panic THEN Panic ELSE Equation_add(x, y)

InitAssoc ==
    /\ cks = None /\ ek = None /\ mode = "none"
    /\ var = None /\ com = None /\ ext = None
    /\ ps = None /\ ps2 = None /\ dims = <<>> /\ nrand = 0 /\ verdict = None
    /\ op = "init"
    /\ eqL = None /\ eqR = None /\ eqSum = None
    /\ args \in AssocEquations \X AssocEquations \X AssocEquations
    /\ res = None /\ drawn = 0

(* (E1 + E2) + E3 and E1 + (E2 + E3) *)
EqAdd3 ==
    /\ op = "init" /\ args # None
    /\ res' = [left |-> Equation_add_unwind(Equation_add(args[1], args[2]), args[3]),
               right |-> Equation_add_unwind(args[1], Equation_add(args[2], args[3]))]
    /\ op' = "eqadd3"
    /\ UNCHANGED <<cks, ek, mode, var, com, ext, ps, ps2, dims, nrand, verdict,
                   eqL, eqR, eqSum, args, drawn>>

SpecAssoc == InitAssoc /\ [][EqAdd3]_vars

(***************************************************************************)
(* Equation::new on constants and matrices of any lengths and shape        *)
(***************************************************************************)
NewEquation ==
    /\ op = "init"
    /\ \E la \in 0..MaxN, lb \in 0..MaxM, dm \in AllDims :
          \E a \in [1..la -> Fr], b \in [1..lb -> Fr],
             gamma \in Matrices(dm[1], dm[2], Fr), target \in Fr :
             /\ args' = [a |-> a, b |-> b, gamma |-> gamma, target |-> target]
             /\ res' = Equation_new(a, b, gamma, target)
    /\ op' = "new"
    /\ UNCHANGED <<cks, ek, mode, var, com, ext, ps, ps2, dims, nrand, verdict,
                   eqL, eqR, eqSum, drawn>>

SpecNew == Init /\ [][NewEquation]_vars

(***************************************************************************)
(* The top-level setup on inputs of any lengths and shape                  *)
(***************************************************************************)
SetupAny ==
    /\ cks # None /\ ps = None
    /\ \E la \in 0..MaxN, lb \in 0..MaxM, dm \in AllDims :
          \E ay \in [1..la -> AYPool], xb \in [1..lb -> XBPool],
             gamma \in Matrices(dm[1], dm[2], {1, 2}), z \in ZPool :
             /\ ps' = setup(z, cks, ay, xb, gamma)
             /\ dims' = <<lb, la>>
             /\ args' = [ay |-> ay, xb |-> xb, gamma |-> gamma, z |-> z]
             /\ drawn' = setup_draws(ay, xb, gamma)
    /\ nrand' = 0 /\ verdict' = None /\ op' = "setup"
    /\ UNCHANGED <<cks, ek, mode, var, com, ext, ps2, eqL, eqR, eqSum, res>>

NextSetupAny == KeyGen(Modes, KeyPool) \/ SetupAny

SpecSetupAny == Init /\ [][NextSetupAny]_vars

(***************************************************************************)
(* Proof::new on an equation and variables of any lengths                  *)
(***************************************************************************)
ProveXPool == {Variable_with_randomness(1, <<2, 2>>), Variable_with_zero_randomness(2)}
ProveYPool == {Variable_with_randomness(2, <<1, 2>>), Variable_with_zero_randomness(1)}

ProveAny ==
    /\ cks # None /\ op = "keygen"
    /\ \E la \in 0..MaxN, lb \in 0..MaxM, dm \in AllDims, lx \in 0..MaxM, ly \in 0..MaxN :
          \E x \in [1..lx -> ProveXPool], y \in [1..ly -> ProveYPool] :
             LET equ == [a |-> [j \in 1..la |-> 1], b |-> [i \in 1..lb |-> 2],
                         gamma |-> Matrix_from_elem(dm[1], dm[2], 1), target |-> 0]
                 z == Matrix_new(<<<<1, 2>>, <<0, 1>>>>, 2)
             IN  /\ args' = [equ |-> equ, x |-> x, y |-> y, z |-> z]
                 /\ res' = Proof_new(z, cks, equ, x, y)
    /\ op' = "prove"
    /\ UNCHANGED <<cks, ek, mode, var, com, ext, ps, ps2, dims, nrand, verdict,
                   eqL, eqR, eqSum, drawn>>

NextProve == KeyGen(Modes, KeyPool) \/ ProveAny

SpecProve == Init /\ [][NextProve]_vars

(***************************************************************************)
(* Re-randomized commitments under an extraction key                       *)
(***************************************************************************)
(* every a1, a2, with and without zero t1, t2 *)
ExKeyPool ==
    {<<1, 2, a1, a2, t[1], t[2]>> : a1 \in Fr, a2 \in Fr, t \in {<<1, 2>>, <<0, 0>>}}

CommitFresh == com = None /\ ps = None /\ Commit

(* c.randomize(rng, ck) on the commitment at hand *)
RandomizeCom ==
    /\ cks # None /\ com # None /\ ext = None /\ nrand < MaxRand
    /\ \E r \in Randomness :
          com' = [com EXCEPT
                    !.c = Com_randomize(@, IF com.grp = 1 THEN cks.u ELSE cks.v, r).com]
    /\ nrand' = nrand + 1 /\ op' = "randomize_com"
    /\ UNCHANGED <<cks, ek, mode, var, ext, ps, ps2, dims, verdict, eqL, eqR, eqSum,
                   args, res, drawn>>

SetupForRandEx ==
    com = None /\ SetupWith({<<1, 1>>}, RandAYPool, RandXBPool, {1, 2}, {Zero2x2})

NextComRand ==
    \/ KeyGen({"setup_ex"}, ExKeyPool)
    \/ CommitFresh \/ RandomizeCom \/ Extract
    \/ SetupForRandEx \/ Randomize

SpecComRand == Init /\ [][NextComRand]_vars

(***************************************************************************)
(* Sums of two scalar matrices of any shapes                               *)
(***************************************************************************)
MatShapes == (0..(MaxM + 1)) \X (0..(MaxN + 1))

MatAdd ==
    /\ op = "init"
    /\ \E sa \in MatShapes, sb \in MatShapes :
          \E A \in Matrices(sa[1], sa[2], {1, 2}), B \in Matrices(sb[1], sb[2], {1}) :
             /\ args' = <<A, B>>
             /\ res' = Matrix_add(A, B)
    /\ op' = "matadd"
    /\ UNCHANGED <<cks, ek, mode, var, com, ext, ps, ps2, dims, nrand, verdict,
                   eqL, eqR, eqSum, drawn>>

SpecMat == Init /\ [][MatAdd]_vars

(***************************************************************************)
(* Sequences of setup, randomize and + in any order under one set of keys  *)
(***************************************************************************)
MaxSummands == 3

OpsDims == {<<1, 1>>, <<2, 1>>, <<0, 1>>, <<1, 0>>}
OpsKeyPool == {<<1, 2, 2, 1, 2, 2>>}
OpsZ == Matrix_new(<<<<2, 1>>, <<2, 0>>>>, 2)

SetupForOps == SetupWith(OpsDims, RandAYPool, RandXBPool, {2}, {Zero2x2})

(* A further proof system from setup under the same keys, the next right operand *)
SetupOther ==
    /\ cks # None /\ ps # None /\ ps # Panic /\ ps2 = None
    /\ Len(dims) < 2 * MaxSummands
    /\ \E dm \in OpsDims :
          \E ay \in [1..dm[2] -> {<<2, Variable_with_randomness(1, <<0, 2>>)>>}],
             xb \in [1..dm[1] -> {<<Variable_with_randomness(2, <<1, 1>>), 1>>}],
             gamma \in Gammas(dm[1], dm[2], {1}) :
             /\ ps2' = setup(OpsZ, cks, ay, xb, gamma)
             /\ dims' = dims \o dm
    /\ op' = "setup2"
    /\ UNCHANGED <<cks, ek, mode, var, com, ext, ps, nrand, verdict, eqL, eqR, eqSum,
                   args, res, drawn>>

(* ProofSystem::randomize on the proof system at hand, a sum or not *)
RandomizeOps ==
    /\ cks # None /\ ps # None /\ ps # Panic /\ nrand < MaxRand
    /\ ps' = ProofSystem_randomize(ps, OpsZ, cks,
                                   [i \in 1..Len(ps.c) |-> <<1, 2>>],
                                   [j \in 1..Len(ps.d) |-> <<2, 0>>])
    /\ nrand' = nrand + 1 /\ verdict' = None /\ op' = "randomize"
    /\ UNCHANGED <<cks, ek, mode, var, com, ext, ps2, dims, eqL, eqR, eqSum,
                   args, res, drawn>>

(* ProofSystem::randomize on the right operand before it is summed *)
RandomizeOther ==
    /\ cks # None /\ ps2 # None /\ ps2 # Panic /\ op = "setup2" /\ nrand < MaxRand
    /\ ps2' = ProofSystem_randomize(ps2, Zero2x2, cks,
                                    [i \in 1..Len(ps2.c) |-> <<2, 1>>],
                                    [j \in 1..Len(ps2.d) |-> <<0, 1>>])
    /\ nrand' = nrand + 1 /\ op' = "randomize2"
    /\ UNCHANGED <<cks, ek, mode, var, com, ext, ps, dims, verdict, eqL, eqR, eqSum,
                   args, res, drawn>>

NextOps ==
    \/ KeyGen({"setup", "setup_wi"}, OpsKeyPool)
    \/ SetupForOps \/ SetupOther \/ RandomizeOps \/ RandomizeOther \/ Add \/ Verify

SpecOps == Init /\ [][NextOps]_vars

(* Proof / Proof on the proofs of the two proof systems at hand *)
ProofDiv ==
    /\ ps # None /\ ps # Panic /\ ps2 # None /\ ps2 # Panic
    /\ res = None /\ verdict = None
    /\ res' = Proof_div(ps.proof, ps2.proof)
    /\ op' = "div"
    /\ UNCHANGED <<cks, ek, mode, var, com, ext, ps, ps2, dims, nrand, verdict,
                   eqL, eqR, eqSum, args, drawn>>

NextShape == NextOps \/ ProofDiv

SpecShape == Init /\ [][NextShape]_vars

(***************************************************************************)
(* Equation::verify under an extraction key, on commitments and proofs     *)
(* that need not come from the prover                                      *)
(***************************************************************************)
SoundKeyPool ==
    {<<1, 2, a[1], a[2], t[1], t[2]>> :
        a \in {<<2, 1>>, <<0, 2>>, <<1, 1>>}, t \in {<<1, 2>>, <<0, 0>>}}

SoundInputs ==
    {[equation |-> [a |-> [j \in 1..dm[2] |-> 1], b |-> [i \in 1..dm[1] |-> 2],
                    gamma |-> Matrix_from_elem(dm[1], dm[2], g), target |-> T],
      c |-> [i \in 1..dm[1] |-> c], d |-> [j \in 1..dm[2] |-> d],
      proof |-> [phi |-> phi, theta |-> theta]] :
        dm \in {<<1, 1>>, <<0, 1>>, <<1, 0>>},
        g \in {0, 2}, T \in Fr, c \in Fr \X Fr, d \in {<<2, 1>>, <<0, 2>>, <<1, 1>>},
        phi \in Matrices(2, 2, Fr),
        theta \in {Zero2x2, Matrix_new(<<<<1, 2>>, <<0, 1>>>>, 2),
                   Matrix_new(<<<<0, 1>>, <<2, 2>>>>, 2)}}

InitSound ==
    /\ \E k \in SoundKeyPool :
          /\ cks = CommitmentKeys_setup("setup_ex", k[1], k[2], k[3], k[4], k[5], k[6])
          /\ ek = Ret(<<k[3], k[4]>>)
    /\ mode = "setup_ex"
    /\ var = None /\ com = None /\ ext = None
    /\ ps \in SoundInputs
    /\ ps2 = None /\ dims = <<>> /\ nrand = 0 /\ verdict = None
    /\ op = "untrusted"
    /\ eqL = None /\ eqR = None /\ eqSum = None
    /\ args = None /\ res = None /\ drawn = 0

SpecSound == InitSound /\ [][Verify]_vars

(***************************************************************************)
(* The dimensions of every equation and proof system that is produced      *)
(***************************************************************************)
(* the right operands of Equation + Equation, one of each shape *)
DimsEquations ==
    {Equation_new([j \in 1..dm[2] |-> 1], [i \in 1..dm[1] |-> 2],
                  Matrix_from_elem(dm[1], dm[2], 1), 1) : dm \in OpsDims}

(* E + E' with E the equation Equation::new has just returned *)
EqAddAfterNew ==
    /\ op = "new" /\ res # Panic /\ res.target = 0
    /\ \E rhs \in DimsEquations :
          /\ eqL' = res /\ eqR' = rhs
          /\ eqSum' = Equation_add(res, rhs)
    /\ op' = "eqadd"
    /\ UNCHANGED <<cks, ek, mode, var, com, ext, ps, ps2, dims, nrand, verdict,
                   args, res, drawn>>

NextDims ==
    \/ op = "init" /\ KeyGen({"setup", "setup_wi"}, OpsKeyPool)
    \/ SetupForOps \/ SetupOther \/ RandomizeOps \/ RandomizeOther \/ Add
    \/ NewEquation \/ EqAddAfterNew

SpecDims == Init /\ [][NextDims]_vars

(***************************************************************************)
(* One call of Com::randomize and of ProofSystem::randomize, with what it  *)
(* drew and what it was called on                                          *)
(***************************************************************************)
CallKeyPool == {<<1, 2, 2, 1, 2, 2>>}

(* c.randomize(rng, ck): c is updated in place, the ComRandomness is returned *)
ComRandomizeCall ==
    /\ cks # None /\ com # None /\ op = "commit"
    /\ \E r \in Randomness :
          LET out == Com_randomize(com.c, IF com.grp = 1 THEN cks.u ELSE cks.v, r)
          IN  /\ com' = [com EXCEPT !.c = out.com]
              /\ args' = [c |-> com.c, r |-> r]
              /\ res' = out.cr
    /\ op' = "com_randomize"
    /\ UNCHANGED <<cks, ek, mode, var, ext, ps, ps2, dims, nrand, verdict,
                   eqL, eqR, eqSum, drawn>>

CallDims == {<<2, 1>>, <<1, 2>>}

SetupForCall == com = None /\ SetupWith(CallDims, RandAYPool, RandXBPool, {1, 2}, {Zero2x2})

(* ps.randomize(rng, cks) *)
RandomizeCall ==
    /\ cks # None /\ ps # None /\ ps # Panic /\ nrand < MaxRand
    /\ \E rs \in [1..Len(ps.c) -> RandPool], ss \in [1..Len(ps.d) -> RandPool] :
          /\ ps' = ProofSystem_randomize(ps, OpsZ, cks, rs, ss)
          /\ args' = [before |-> ps, rs |-> rs, ss |-> ss, z |-> OpsZ]
    /\ nrand' = nrand + 1 /\ op' = "ps_randomize"
    /\ UNCHANGED <<cks, ek, mode, var, com, ext, ps2, dims, verdict, eqL, eqR, eqSum,
                   res, drawn>>

NextCall ==
    \/ KeyGen({"setup", "setup_wi"}, CallKeyPool)
    \/ CommitFresh \/ ComRandomizeCall \/ SetupForCall \/ RandomizeCall

SpecCall == Init /\ [][NextCall]_vars

(***************************************************************************)
(* Equation::verify before and after (Z (x) v, Z (x) u) is added to a      *)
(* proof, honest or not                                                    *)
(***************************************************************************)
ZInputs ==
    {s \in ShapeInputs \cup ValueInputs :
        Matrix_dim(s.proof.phi) = <<2, 2>> /\ Matrix_dim(s.proof.theta) = <<2, 2>>}

ZMatrices ==
    ZPool \cup {Matrix_new(<<<<0, 1>>, <<0, 0>>>>, 2), Matrix_new(<<<<0, 0>>, <<2, 0>>>>, 2)}

InitZ ==
    /\ \E m \in Modes, k \in AddKeyPool :
          /\ cks = CommitmentKeys_setup(m, k[1], k[2], k[3], k[4], k[5], k[6])
          /\ mode = m
    /\ ek = None
    /\ var = None /\ com = None /\ ext = None
    /\ ps \in ZInputs
    /\ ps2 = None /\ dims = <<>> /\ nrand = 0 /\ verdict = None
    /\ op = "untrusted"
    /\ eqL = None /\ eqR = None /\ eqSum = None
    /\ args = None /\ res = None /\ drawn = 0

(* proof + (Z (x) v, Z (x) u), as Proof::new and Proof::randomize add it *)
AddZ ==
    /\ op = "untrusted" /\ verdict # None
    /\ \E z \in ZMatrices :
          /\ ps' = [ps EXCEPT !.proof =
                       Proof_add(@, [phi |-> z_v(z, cks.v), theta |-> z_u(z, cks.u)])]
          /\ args' = z
    /\ res' = verdict /\ verdict' = None /\ op' = "addz"
    /\ UNCHANGED <<cks, ek, mode, var, com, ext, ps2, dims, nrand, eqL, eqR, eqSum, drawn>>

SpecZ == InitZ /\ [][Verify \/ AddZ]_vars

(***************************************************************************)
(* An honest proof for an equation whose target the caller chose           *)
(***************************************************************************)
(* Equation::new(a, b, gamma, target), cks.u.commit(x_i), cks.v.commit(y_j) *)
(* and Proof::new, as setup calls them, but with any target                 *)
ProveWithTarget ==
    /\ cks # None /\ ps = None
    /\ \E dm \in AllDims :
          \E ay \in [1..dm[2] -> AYPool], xb \in [1..dm[1] -> XBPool],
             gamma \in Gammas(dm[1], dm[2], {0, 2}), z \in {OpsZ}, target \in Fr :
             LET x == [i \in 1..Len(xb) |-> xb[i][1]]
                 y == [j \in 1..Len(ay) |-> ay[j][2]]
                 equation == Equation_new([j \in 1..Len(ay) |-> ay[j][1]],
                                          [i \in 1..Len(xb) |-> xb[i][2]], gamma, target)
             IN  /\ ps' = [equation |-> equation,
                           c |-> [i \in 1..Len(x) |-> CommitmentKey_commit(cks.u, x[i])],
                           d |-> [j \in 1..Len(y) |-> CommitmentKey_commit(cks.v, y[j])],
                           proof |-> Proof_new(z, cks, equation, x, y)]
                 /\ dims' = dm
                 /\ args' = [ay |-> ay, xb |-> xb, gamma |-> gamma, z |-> z]
    /\ verdict' = None /\ op' = "prove_target"
    /\ UNCHANGED <<cks, ek, mode, var, com, ext, ps2, nrand, eqL, eqR, eqSum, res, drawn>>

SpecTarget == Init /\ [][KeyGen(Modes, AddKeyPool) \/ ProveWithTarget \/ Verify]_vars

(***************************************************************************)
(* The three key setups with the generators given and the scalars drawn    *)
(***************************************************************************)
(* CommitmentKeys::setup(rng, g1, g2), setup_ex and setup_wi; the arguments *)
(* and the draws a1, a2, t1, t2 are kept                                    *)
KeyGenCall ==
    /\ cks = None
    /\ \E m \in Modes, k \in AllKeyParams :
          /\ cks' = CommitmentKeys_setup(m, k[1], k[2], k[3], k[4], k[5], k[6])
          /\ ek' = IF m = "setup_ex" THEN Ret(<<k[3], k[4]>>) ELSE None
          /\ mode' = m
          /\ args' = [g1 |-> k[1], g2 |-> k[2], a1 |-> k[3], a2 |-> k[4],
                      t1 |-> k[5], t2 |-> k[6]]
    /\ op' = "keygen"
    /\ UNCHANGED <<var, com, ext, ps, ps2, dims, nrand, verdict, eqL, eqR, eqSum,
                   res, drawn>>

SpecKeys == Init /\ [][KeyGenCall]_vars

(***************************************************************************)
(* Commitments and their re-randomization under every generator and t      *)
(***************************************************************************)
SpecHom == Init /\ [][KeyGen(Modes, TamperKeyPool) \/ CommitFresh \/ ComRandomizeCall]_vars

(***************************************************************************)
(* Variables built with Variable::with_zero_randomness                     *)
(***************************************************************************)
(* ck.commit(&Variable::with_zero_randomness(value)) under u and under v *)
CommitZero ==
    /\ cks # None /\ com = None /\ ps = None
    /\ \E g \in {1, 2}, value \in Fr :
          LET x == Variable_with_zero_randomness(value)
          IN  /\ var' = [grp |-> g, v |-> x]
              /\ com' = [grp |-> g,
                         c |-> CommitmentKey_commit(IF g = 1 THEN cks.u ELSE cks.v, x)]
    /\ op' = "commit_zero"
    /\ UNCHANGED <<cks, ek, mode, ext, ps, ps2, dims, nrand, verdict, eqL, eqR, eqSum,
                   args, res, drawn>>

(* setup on variables that all have zero randomness *)
SetupZero ==
    /\ com = None
    /\ SetupWith(AllDims,
                 {<<1, Variable_with_zero_randomness(2)>>, <<2, Variable_with_zero_randomness(1)>>},
                 {<<Variable_with_zero_randomness(1), 2>>, <<Variable_with_zero_randomness(2), 1>>},
                 {1, 2}, {OpsZ})

SpecZero == Init /\ [][KeyGen(Modes, KeyPool) \/ CommitZero \/ SetupZero \/ Verify]_vars

(***************************************************************************)
(* A scalar matrix written as a vector of vectors and read back            *)
(***************************************************************************)
(* Matrix::from_vecs(M.to_vecs()), what deserializing a serialized M does *)
RoundTrip ==
    /\ op = "init"
    /\ \E sh \in MatShapes :
          \E M \in Matrices(sh[1], sh[2], Fr) :
             /\ args' = M
             /\ res' = Matrix_from_vecs(Matrix_to_vecs(M))
    /\ op' = "roundtrip"
    /\ UNCHANGED <<cks, ek, mode, var, com, ext, ps, ps2, dims, nrand, verdict,
                   eqL, eqR, eqSum, drawn>>

SpecVecs == Init /\ [][RoundTrip]_vars

(***************************************************************************)
(* Sums and quotients of two proofs                                        *)
(***************************************************************************)
(* p1 + p2, p1 / p2, (p1 + p2) / p2 and p2 + p1 on proofs of eight elements *)
ProofAddDiv ==
    /\ op = "init"
    /\ \E phi1 \in Matrices(2, 2, Fr), theta1 \in ZPool \cup {Zero2x2},
          phi2 \in ZMatrices, theta2 \in ZMatrices :
          LET p1 == [phi |-> phi1, theta |-> theta1]
              p2 == [phi |-> phi2, theta |-> theta2]
          IN  /\ args' = <<p1, p2>>
              /\ res' = [sum |-> Proof_add(p1, p2),
                         quot |-> Proof_div(p1, p2),
                         back |-> Proof_div(Proof_add(p1, p2), p2),
                         comm |-> Proof_add(p2, p1)]
    /\ op' = "proof_add_div"
    /\ UNCHANGED <<cks, ek, mode, var, com, ext, ps, ps2, dims, nrand, verdict,
                   eqL, eqR, eqSum, drawn>>

SpecProofOps == Init /\ [][ProofAddDiv]_vars

(* C1 (Completeness): under keys of any of the three setup modes, the proof  *)
(* system setup returns is produced and Equation::verify accepts it.         *)
Completeness ==
    op = "setup" => ps # Panic /\ (verdict # None => verdict = Ret(TRUE))

CompletenessWitness ==
    /\ op = "setup" /\ mode = "setup_wi" /\ dims = <<1, 1>> /\ verdict = Ret(TRUE)
    /\ ps.equation.gamma.at[1][1] # 0 /\ ps.equation.target # 0

(* C4 (Extraction correctness): with the extraction key of setup_ex, a     *)
(* commitment under u extracts by extract_1 to the committed value, and a  *)
(* commitment under v extracts by extract_2 to the committed value.        *)
ExtractionCorrect ==
    op = "extract" => ext = Ret(var.v.value)

ExtractionWitness ==
    /\ op = "extract" /\ var.grp = 1 /\ var.v.value = 2 /\ var.v.rand = <<1, 2>>
    /\ cks.u[1] = <<1, 2>> /\ cks.u[2] = <<2, 1>> /\ ext = Ret(2)

(* C2 (Completeness under re-randomization): after k = 1, 2, 3, ...          *)
(* applications of ProofSystem::randomize to a proof system returned by     *)
(* setup, with fresh randomness each time, a proof system is produced and   *)
(* Equation::verify accepts it.                                             *)
RandomizedCompleteness ==
    (op = "randomize" /\ nrand >= 1) =>
        ps # Panic /\ (verdict # None => verdict = Ret(TRUE))

RandomizedWitness ==
    /\ op = "randomize" /\ nrand = 3 /\ dims = <<2, 1>> /\ verdict = Ret(TRUE)

(* C3 (Homomorphic completeness): for two proof systems built by setup     *)
(* under the same keys, of any dimensions m x n and m' x n', the sum is    *)
(* produced and Equation::verify accepts it under the composed equation.   *)
HomomorphicCompleteness ==
    op = "add" => ps # Panic /\ (verdict # None => verdict = Ret(TRUE))

(* diag(gamma, gamma'): gamma top-left, gamma' bottom-right, zeros elsewhere *)
BlockDiag(g, h) ==
    [rows |-> g.rows + h.rows, cols |-> g.cols + h.cols,
     at |-> [i \in 1..(g.rows + h.rows) |-> [j \in 1..(g.cols + h.cols) |->
                IF i <= g.rows /\ j <= g.cols THEN g.at[i][j]
                ELSE IF i > g.rows /\ j > g.cols THEN h.at[i - g.rows][j - g.cols]
                ELSE 0]]]

(* C10 (Equation composition law): for well-formed E = (a, b, gamma, T) and *)
(* E' = (a', b', gamma', T') of any dimensions, E + E' is produced and      *)
(* equals Equation::new(a || a', b || b', diag(gamma, gamma'), T + T').     *)
CompositionLaw ==
    op = "eqadd" =>
        eqSum = Equation_new(eqL.a \o eqR.a, eqL.b \o eqR.b,
                             BlockDiag(eqL.gamma, eqR.gamma),
                             FAdd(eqL.target, eqR.target))

(* C5 (Zero-dimension edge cases): with m = 0 (gamma of dimension (0, n),   *)
(* empty c) and with n = 0 (gamma of dimension (m, 0), empty d), setup      *)
(* returns a proof system and verify on it returns true.                    *)
ZeroDimensions ==
    (op = "setup" /\ (dims[1] = 0 \/ dims[2] = 0)) =>
        /\ ps # Panic
        /\ Matrix_dim(ps.equation.gamma) = dims
        /\ dims[1] = 0 => ps.c = <<>>
        /\ dims[2] = 0 => ps.d = <<>>
        /\ verdict # None => verdict = Ret(TRUE)

ZeroDimensionsWitness ==
    /\ op = "setup" /\ dims = <<0, 1>> /\ ps # Panic /\ verdict = Ret(TRUE)
    /\ ps.equation.target # 0

(* The lengths and shapes verify is given do not fit the equation *)
ShapeMismatch ==
    \/ Len(ps.c) # ps.equation.gamma.rows
    \/ Len(ps.d) # ps.equation.gamma.cols
    \/ Len(ps.equation.a) # ps.equation.gamma.cols
    \/ Len(ps.equation.b) # ps.equation.gamma.rows
    \/ <<ps.proof.phi.rows, ps.proof.phi.cols>> # <<2, 2>>
    \/ <<ps.proof.theta.rows, ps.proof.theta.cols>> # <<2, 2>>

(* C6 (Dimension-guard rejection): on every input Equation::verify does not *)
(* panic, and it returns false whenever |c| # gamma.rows, |d| # gamma.cols, *)
(* |a| # gamma.cols, |b| # gamma.rows, or phi or theta is not 2 x 2.        *)
DimensionGuard ==
    verdict # None => verdict # Panic /\ (ShapeMismatch => verdict = Ret(FALSE))

DimensionGuardWitness ==
    /\ op = "untrusted" /\ verdict = Ret(FALSE)
    /\ ps.equation.gamma.rows = 0 /\ ps.equation.gamma.cols = 1
    /\ Len(ps.equation.a) = 1 /\ Len(ps.equation.b) = 0
    /\ Len(ps.c) = 1 /\ Len(ps.d) = 1
    /\ Matrix_dim(ps.proof.phi) = <<2, 2>> /\ Matrix_dim(ps.proof.theta) = <<2, 2>>

(* The pairing product identity in row k of u and column q of v, expanded   *)
(* by bilinearity: Eq1 is (1, 1), Eq2 is (1, 2), Eq3 is (2, 1), Eq4 is      *)
(* (2, 2), the only one with the target, on its right-hand side.            *)
Identity(k, q) ==
    LET E == ps.equation
        phi == ps.proof.phi.at
        theta == ps.proof.theta.at
        cross == SumSeq([i \in 1..Len(ps.c) |-> SumSeq([j \in 1..Len(ps.d) |->
                     FMul(E.gamma.at[i][j], pairing(ps.c[i][k], ps.d[j][q]))])])
        withB == IF q = 2 THEN SumSeq([i \in 1..Len(ps.c) |-> pairing(ps.c[i][k], E.b[i])])
                 ELSE 0
        withA == IF k = 2 THEN SumSeq([j \in 1..Len(ps.d) |-> pairing(E.a[j], ps.d[j][q])])
                 ELSE 0
        T == IF k = 2 /\ q = 2 THEN E.target ELSE 0
    IN  FAdd(FAdd(cross, withB), withA) =
        FAdd(T, FAdd(FAdd(pairing(cks.u[1][k], phi[1][q]), pairing(cks.u[2][k], phi[2][q])),
                     FAdd(pairing(theta[1][k], cks.v[1][q]), pairing(theta[2][k], cks.v[2][q]))))

(* C7: when the dimension gate passes, Equation::verify returns true if and *)
(* only if Eq1, Eq2, Eq3 and Eq4 all hold; a failure of any single one,     *)
(* Eq4 alone included, gives false.                                         *)
AcceptIffAllFour ==
    (verdict # None /\ ~ShapeMismatch) =>
        /\ verdict \in {Ret(TRUE), Ret(FALSE)}
        /\ verdict = Ret(TRUE) <=>
               Identity(1, 1) /\ Identity(1, 2) /\ Identity(2, 1) /\ Identity(2, 2)

AcceptIffAllFourWitness ==
    /\ op = "untrusted" /\ verdict = Ret(FALSE) /\ ~ShapeMismatch
    /\ Identity(1, 1) /\ Identity(1, 2) /\ Identity(2, 1) /\ ~Identity(2, 2)
    /\ ps.proof.phi # Zero2x2 /\ ps.proof.theta # Zero2x2

(* C8 (Rejection on proof tampering): under keys with non-identity          *)
(* generators and non-zero t_1, t_2, replacing one of the eight elements of *)
(* a proof that verifies by a different group element makes verify false.   *)
NonDegenerateKeys ==
    cks.u[1][1] # 0 /\ cks.u[2][1] # 0 /\ cks.v[1][1] # 0 /\ cks.v[2][1] # 0

TamperRejected ==
    (op = "tamper" /\ verdict # None /\ NonDegenerateKeys) => verdict = Ret(FALSE)

TamperRejectedWitness ==
    /\ op = "tamper" /\ verdict = Ret(FALSE) /\ NonDegenerateKeys /\ mode = "setup_wi"
    /\ dims = <<1, 1>> /\ cks.u[1][2] = 0

(* C9 (Perfect hiding under WI setup): under setup_wi with a non-identity   *)
(* generator, the commitment to a value under randomness r is also the      *)
(* commitment to every other value under some randomness r', in G1 under u  *)
(* and in G2 under v.                                                       *)
PerfectHiding ==
    (op = "commit" /\ mode = "setup_wi"
        /\ (IF com.grp = 1 THEN cks.u[1][1] ELSE cks.v[1][1]) # 0) =>
        \A x2 \in Fr : \E r2 \in Randomness :
            CommitmentKey_commit(IF com.grp = 1 THEN cks.u ELSE cks.v,
                                 Variable_with_randomness(x2, r2)) = com.c

PerfectHidingWitness ==
    /\ op = "commit" /\ mode = "setup_wi" /\ com.grp = 1
    /\ cks.u = <<<<1, 2>>, <<2, 0>>>> /\ var.v.value = 1 /\ var.v.rand = <<1, 2>>

(* C11 (Equation composition is associative): for any three well-formed    *)
(* equations E1, E2, E3, both (E1 + E2) + E3 and E1 + (E2 + E3) are         *)
(* produced and are equal.                                                  *)
Associativity ==
    op = "eqadd3" => res.left # Panic /\ res.right # Panic /\ res.left = res.right

(* C12: Equation::new(a, b, gamma, T) panics, returning no equation,        *)
(* whenever gamma.dim() # (|b|, |a|), and otherwise returns an equation     *)
(* holding exactly the given a, b, gamma and T.                             *)
NewChecksDimensions ==
    op = "new" =>
        IF <<args.gamma.rows, args.gamma.cols>> # <<Len(args.b), Len(args.a)>>
        THEN res = Panic
        ELSE /\ res # Panic
             /\ res.a = args.a /\ res.b = args.b
             /\ res.gamma = args.gamma /\ res.target = args.target

NewChecksDimensionsWitness ==
    /\ op = "new" /\ res = Panic
    /\ Len(args.a) = 1 /\ Len(args.b) = 1 /\ Matrix_dim(args.gamma) = <<0, 1>>

(* C13: the top-level setup(rng, cks, ay, xb, gamma) panics, before drawing *)
(* any randomness and without producing a ProofSystem, whenever             *)
(* gamma.dim() # (|xb|, |ay|).                                              *)
SetupChecksDimensions ==
    (op = "setup"
        /\ <<args.gamma.rows, args.gamma.cols>> # <<Len(args.xb), Len(args.ay)>>) =>
        ps = Panic /\ drawn = 0

SetupChecksDimensionsWitness ==
    /\ op = "setup" /\ ps = Panic /\ drawn = 0
    /\ Len(args.xb) = 1 /\ Len(args.ay) = 1 /\ Matrix_dim(args.gamma) = <<1, 0>>

RandomizePreservesValue ==
    /\ (op = "extract" /\ nrand >= 1) => ext = Ret(var.v.value)
    /\ (op = "randomize" /\ ps # Panic) =>
          /\ \A i \in 1..Len(args.xb) :
                ExtractKey_extract_1(ek.ret, ps.c[i]) = args.xb[i][1].value
          /\ \A j \in 1..Len(args.ay) :
                ExtractKey_extract_2(ek.ret, ps.d[j]) = args.ay[j][2].value

RandomizePreservesValueWitness ==
    /\ op = "extract" /\ nrand = 2 /\ var.grp = 2 /\ var.v.value = 1
    /\ com.c # CommitmentKey_commit(cks.v, var.v) /\ ext = Ret(1)

(* C18: adding two scalar matrices of different shapes returns an error to *)
(* the caller: it neither aborts the program nor silently returns a matrix *)
(* (for example by broadcasting a 1 x n or 1 x 1 operand).                 *)
MatrixAddRejectsMismatch ==
    (op = "matadd" /\ Matrix_dim(args[1]) # Matrix_dim(args[2])) => res = ShapeError

(* A proof with phi and theta of dimension exactly (2, 2) *)
EightElements(proof) ==
    /\ <<proof.phi.rows, proof.phi.cols>> = <<2, 2>>
    /\ <<proof.theta.rows, proof.theta.cols>> = <<2, 2>>
    /\ Len(proof.phi.at) = 2 /\ \A i \in 1..2 : Len(proof.phi.at[i]) = 2
    /\ Len(proof.theta.at) = 2 /\ \A i \in 1..2 : Len(proof.theta.at[i]) = 2

(* C17: every Proof reachable through Proof::new, Proof::randomize,         *)
(* Proof + Proof, Proof / Proof, setup, ProofSystem::randomize and          *)
(* ProofSystem + ProofSystem has phi and theta of dimension exactly (2, 2), *)
(* for all m and n including 0.                                             *)
ProofIsTwoByTwo ==
    /\ (ps # None /\ ps # Panic) => EightElements(ps.proof)
    /\ (ps2 # None /\ ps2 # Panic) => EightElements(ps2.proof)
    /\ (op = "div" /\ res # Panic) => EightElements(res)

ProofIsTwoByTwoWitness ==
    /\ op = "add" /\ ps # Panic /\ nrand >= 2 /\ Len(ps.c) = 4 /\ Len(ps.d) = 2
    /\ EightElements(ps.proof)

(* C20: any proof system obtained from proof systems returned by setup      *)
(* under one set of keys by any finite sequence, in any order, of           *)
(* ProofSystem::randomize and ProofSystem + ProofSystem is produced without *)
(* failure and verifies under those keys.                                   *)
ValidAlongOperations ==
    /\ ps # Panic /\ ps2 # Panic
    /\ verdict # None => verdict = Ret(TRUE)

(* C19 (Soundness via extraction): for (cks, ek) from setup_ex, every       *)
(* equation E = (a, b, gamma, T) and every (c, d, proof), honest or not, if *)
(* E.verify(cks, c, d, proof) is true then X_i = ek.extract_1(c_i) and      *)
(* Y_j = ek.extract_2(d_j) satisfy sum_j e(a_j, Y_j) + sum_i e(X_i, b_i) +  *)
(* sum_{i,j} gamma_ij e(X_i, Y_j) = T.                                      *)
ExtractionSoundness ==
    (mode = "setup_ex" /\ op = "untrusted" /\ verdict = Ret(TRUE)) =>
        LET E == ps.equation
            X == [i \in 1..Len(ps.c) |-> ExtractKey_extract_1(ek.ret, ps.c[i])]
            Y == [j \in 1..Len(ps.d) |-> ExtractKey_extract_2(ek.ret, ps.d[j])]
        IN  FAdd(FAdd(SumSeq([j \in 1..Len(Y) |-> pairing(E.a[j], Y[j])]),
                      SumSeq([i \in 1..Len(X) |-> pairing(X[i], E.b[i])])),
                 SumSeq([i \in 1..Len(X) |-> SumSeq([j \in 1..Len(Y) |->
                     FMul(E.gamma.at[i][j], pairing(X[i], Y[j]))])]))
            = E.target

ExtractionSoundnessWitness ==
    /\ mode = "setup_ex" /\ op = "untrusted" /\ verdict = Ret(TRUE)
    /\ Len(ps.c) = 1 /\ Len(ps.d) = 1 /\ ps.equation.gamma.at[1][1] = 2
    /\ ps.equation.target = 1 /\ ps.c[1] = <<2, 2>>
    /\ ps.proof.phi # Zero2x2 /\ ps.proof.theta # Zero2x2

(* gamma has as many rows as b has entries and as many columns as a has *)
WellShaped(E) ==
    /\ <<E.gamma.rows, E.gamma.cols>> = <<Len(E.b), Len(E.a)>>
    /\ Len(E.gamma.at) = Len(E.b)
    /\ \A i \in 1..Len(E.b) : Len(E.gamma.at[i]) = Len(E.a)

(* |a| = |d| = gamma.cols and |b| = |c| = gamma.rows *)
WellShapedSystem(s) ==
    /\ WellShaped(s.equation)
    /\ Len(s.c) = s.equation.gamma.rows
    /\ Len(s.d) = s.equation.gamma.cols

(* C21 (Dimension invariant): every ProofSystem produced by setup and by    *)
(* any sequence of randomize and + satisfies |a| = |d| = gamma.cols and     *)
(* |b| = |c| = gamma.rows, and every Equation produced by Equation::new,    *)
(* setup or Equation + Equation satisfies gamma.dim() = (|b|, |a|).         *)
DimensionInvariant ==
    /\ (ps # None /\ ps # Panic) => WellShapedSystem(ps)
    /\ (ps2 # None /\ ps2 # Panic) => WellShapedSystem(ps2)
    /\ (op = "new" /\ res # Panic) => WellShaped(res)
    /\ (op = "eqadd" /\ eqSum # Panic) => WellShaped(eqSum)

DimensionInvariantWitness ==
    /\ op = "add" /\ ps # Panic /\ nrand >= 1
    /\ Len(ps.c) = 4 /\ Len(ps.d) = 2 /\ Matrix_dim(ps.equation.gamma) = <<4, 2>>

(* C22: Com::randomize(rng, ck) on a commitment c draws r' = (r_1', r_2'),  *)
(* updates c in place to (c_1 + r_1' u_11 + r_2' u_21,                      *)
(* c_2 + r_1' u_12 + r_2' u_22), which is c + commit(ck, (0, r')), and      *)
(* returns (c before the update, r'); ProofSystem::randomize passes these   *)
(* returned pairs, position by position, to Proof::randomize.               *)
RandomizeReturnsOriginal ==
    /\ op = "com_randomize" =>
          LET ck == IF com.grp = 1 THEN cks.u ELSE cks.v
              zero == CommitmentKey_commit(ck, Variable_with_randomness(0, args.r))
          IN  /\ com.c[1] = FAdd(FAdd(args.c[1], FMul(args.r[1], ck[1][1])),
                                 FMul(args.r[2], ck[2][1]))
              /\ com.c[2] = FAdd(FAdd(args.c[2], FMul(args.r[1], ck[1][2])),
                                 FMul(args.r[2], ck[2][2]))
              /\ com.c = <<FAdd(args.c[1], zero[1]), FAdd(args.c[2], zero[2])>>
              /\ res = <<args.c, args.r>>
    /\ (op = "ps_randomize" /\ ps # Panic) =>
          LET old == args.before
              cr == [i \in 1..Len(old.c) |-> <<old.c[i], args.rs[i]>>]
              ds == [j \in 1..Len(old.d) |-> <<old.d[j], args.ss[j]>>]
          IN  ps.proof = Proof_randomize(old.proof, args.z, cks, old.equation, cr, ds)

RandomizeReturnsOriginalWitness ==
    /\ op = "ps_randomize" /\ ps # Panic /\ nrand = 2 /\ Len(ps.c) = 2
    /\ args.rs[1] # args.rs[2] /\ args.before.c[1] # args.before.c[2]
    /\ ps.equation.gamma.at[1][1] # ps.equation.gamma.at[2][1]
    /\ ps.c # args.before.c

(* One step of ProofSystem::randomize or of + and what it leaves alone *)
FrameStep ==
    /\ (op' = "randomize" /\ nrand' = nrand + 1 /\ ps' # Panic) =>
          /\ ps'.equation = ps.equation /\ cks' = cks /\ ps2' = ps2
          /\ Len(ps'.c) = Len(ps.c) /\ Len(ps'.d) = Len(ps.d)
    /\ (op' = "randomize2" /\ nrand' = nrand + 1 /\ ps2' # Panic) =>
          /\ ps2'.equation = ps2.equation /\ cks' = cks /\ ps' = ps
          /\ Len(ps2'.c) = Len(ps2.c) /\ Len(ps2'.d) = Len(ps2.d)
    /\ (op' = "add" /\ ps2' = None /\ ps2 # None /\ ps' # Panic) =>
          /\ ps'.c = ps.c \o ps2.c /\ ps'.d = ps.d \o ps2.d /\ cks' = cks

(* C23 (Frame of randomization): ProofSystem::randomize leaves the equation *)
(* (a, b, gamma, target) and the commitment keys unchanged and keeps |c|    *)
(* and |d|: only the entries of c, d and the proof change.                  *)
(* ProofSystem + ProofSystem keeps every commitment of both operands        *)
(* unchanged and in order: c = c_1 || c_2 and d = d_1 || d_2.               *)
Frame == [][FrameStep]_vars

FrameWitness ==
    /\ op = "add" /\ ps # Panic /\ nrand >= 2 /\ Len(ps.c) = 2 /\ Len(ps.d) = 2
    /\ ps.c[1] # ps.c[2] /\ ps.d[1] # ps.d[2]

(* C24: for any keys and any Z in F^{2x2}, the pair (Z (x) v, Z (x) u),     *)
(* with Z (x) v [p][q] = - sum_k z[k][p] v_kq and                           *)
(* Z (x) u [p][q] = sum_k z[p][k] u_kq, contributes zero to the right-hand  *)
(* side of each of the four identities, so adding it to any proof           *)
(* (phi, theta) does not change the result of verify, for any equation and  *)
(* commitments.                                                             *)
IndependentOfZ ==
    op = "addz" =>
        /\ \A k \in 1..2, q \in 1..2 :
              verify_rhs(cks, [phi |-> z_v(args, cks.v), theta |-> z_u(args, cks.u)], k, q) = 0
        /\ \A p \in 1..2, q \in 1..2 :
              /\ z_v(args, cks.v).at[p][q] =
                    FNeg(FAdd(FMul(args.at[1][p], cks.v[1][q]), FMul(args.at[2][p], cks.v[2][q])))
              /\ z_u(args, cks.u).at[p][q] =
                    FAdd(FMul(args.at[p][1], cks.u[1][q]), FMul(args.at[p][2], cks.u[2][q]))
        /\ verdict # None => verdict = res

IndependentOfZWitness ==
    /\ op = "addz" /\ verdict = Ret(TRUE) /\ res = Ret(TRUE)
    /\ args.at[1][2] # args.at[2][1]
    /\ z_v(args, cks.v) # Zero2x2 /\ z_u(args, cks.u) # Zero2x2
    /\ ps.equation.gamma.at[1][1] # 0

(* sum_j e(a_j, y_j) + sum_i e(x_i, b_i) + sum_{i,j} gamma_ij e(x_i, y_j)   *)
(* on the inputs of the last call                                           *)
SatisfiedTarget ==
    LET n == Len(args.ay)
        m == Len(args.xb)
    IN  FAdd(FAdd(SumSeq([j \in 1..n |-> pairing(args.ay[j][1], args.ay[j][2].value)]),
                  SumSeq([i \in 1..m |-> pairing(args.xb[i][1].value, args.xb[i][2])])),
             SumSeq([i \in 1..m |-> SumSeq([j \in 1..n |->
                 FMul(args.gamma.at[i][j],
                      pairing(args.xb[i][1].value, args.ay[j][2].value))])]))

(* C25 (An honest proof binds the target): Proof::new does not read         *)
(* equ.target, and for any keys, witnesses X, Y, constants a, b, gamma and  *)
(* target T', the commitments commit(u, x_i), commit(v, y_j) with           *)
(* Proof::new(rng, cks, (a, b, gamma, T'), X, Y) verify against             *)
(* (a, b, gamma, T') if and only if T' = sum_j e(a_j, y_j) +                *)
(* sum_i e(x_i, b_i) + sum_{i,j} gamma_ij e(x_i, y_j); hence what verifies  *)
(* for T verifies for no other target with the same a, b, gamma, c, d and   *)
(* proof.                                                                   *)
TargetBinding ==
    op = "prove_target" =>
        /\ \A T \in Fr :
              Proof_new(args.z, cks, [ps.equation EXCEPT !.target = T],
                        [i \in 1..Len(args.xb) |-> args.xb[i][1]],
                        [j \in 1..Len(args.ay) |-> args.ay[j][2]]) = ps.proof
        /\ verdict # None =>
              /\ verdict = Ret(ps.equation.target = SatisfiedTarget)
              /\ verdict = Ret(TRUE) =>
                    \A T \in Fr \ {ps.equation.target} :
                        Equation_verify([ps.equation EXCEPT !.target = T],
                                        cks, ps.c, ps.d, ps.proof) = Ret(FALSE)

TargetBindingWitness ==
    /\ op = "prove_target" /\ verdict = Ret(FALSE) /\ dims = <<1, 1>>
    /\ ps.equation.target = 0 /\ SatisfiedTarget = 2 /\ args.gamma.at[1][1] = 2
    /\ mode = "setup_wi"

(* C26 (Commitment-key structure): for generators g1, g2 and scalars a1,    *)
(* a2, t1, t2, setup and setup_ex return u_1 = (g1, a1 g1),                 *)
(* u_2 = t1 u_1 = (t1 g1, t1 a1 g1) and likewise v_1, v_2 = t2 v_1 in G2;   *)
(* setup_wi returns the same u_1, v_1 but u_2 = t1 u_1 - (0, g1) and        *)
(* v_2 = t2 v_1 - (0, g2); setup_ex also returns the extraction key         *)
(* (a1, a2) made of the scalars used in the keys.                           *)
KeyStructure ==
    (op = "keygen" /\ args # None) =>
        LET u1 == cks.u[1]
            u2 == cks.u[2]
            v1 == cks.v[1]
            v2 == cks.v[2]
            k == args
        IN  /\ u1 = <<k.g1, FMul(k.a1, k.g1)>>
            /\ v1 = <<k.g2, FMul(k.a2, k.g2)>>
            /\ mode \in {"setup", "setup_ex"} =>
                  /\ u2 = <<FMul(k.t1, u1[1]), FMul(k.t1, u1[2])>>
                  /\ u2 = <<FMul(k.t1, k.g1), FMul(k.t1, FMul(k.a1, k.g1))>>
                  /\ v2 = <<FMul(k.t2, v1[1]), FMul(k.t2, v1[2])>>
                  /\ v2 = <<FMul(k.t2, k.g2), FMul(k.t2, FMul(k.a2, k.g2))>>
            /\ mode = "setup_wi" =>
                  /\ u2 = <<FSub(FMul(k.t1, u1[1]), 0), FSub(FMul(k.t1, u1[2]), k.g1)>>
                  /\ v2 = <<FSub(FMul(k.t2, v1[1]), 0), FSub(FMul(k.t2, v1[2]), k.g2)>>
            /\ ek = IF mode = "setup_ex" THEN Ret(<<k.a1, k.a2>>) ELSE None

KeyStructureWitness ==
    /\ op = "keygen" /\ args # None /\ mode = "setup_ex"
    /\ args.g1 = 1 /\ args.g2 = 2 /\ args.a1 = 2 /\ args.a2 = 1 /\ args.t1 = 2 /\ args.t2 = 1
    /\ cks.u = <<<<1, 2>>, <<2, 1>>>> /\ cks.v = <<<<2, 2>>, <<2, 2>>>>
    /\ ek = Ret(<<2, 1>>)

(* C27 (Commitments are homomorphic): for any commitment key ck, values X,  *)
(* X' and randomness r, r', commit(ck, (X, r)) + commit(ck, (X', r'))       *)
(* computed componentwise equals commit(ck, (X + X', r + r')); in           *)
(* particular the commitment Com::randomize leaves on commit(ck, (X, r)),   *)
(* with r' the randomness it returns, equals commit(ck, (X, r + r')).       *)
Homomorphic ==
    LET ck == IF com.grp = 1 THEN cks.u ELSE cks.v
    IN  /\ op = "commit" =>
              \A X2 \in Fr, r2 \in Randomness :
                  LET other == CommitmentKey_commit(ck, Variable_with_randomness(X2, r2))
                  IN  <<FAdd(com.c[1], other[1]), FAdd(com.c[2], other[2])>> =
                      CommitmentKey_commit(ck,
                          Variable_with_randomness(FAdd(var.v.value, X2),
                                                   Randomness_add(var.v.rand, r2)))
        /\ op = "com_randomize" =>
              com.c = CommitmentKey_commit(ck,
                          Variable_with_randomness(var.v.value,
                                                   Randomness_add(var.v.rand, res[2])))

HomomorphicWitness ==
    /\ op = "com_randomize" /\ mode = "setup_wi" /\ com.grp = 2
    /\ var.v.value = 2 /\ var.v.rand = <<1, 2>> /\ res[2] = <<2, 2>>
    /\ cks.v[1][1] # 0 /\ cks.v[2][1] # 0 /\ com.c # args.c

(* C28: a variable built with Variable::with_zero_randomness(value) commits *)
(* deterministically: for every commitment key ck, binding or WI,           *)
(* ck.commit of it equals (identity, value); and a proof system built by    *)
(* setup from zero-randomness variables still verifies.                     *)
ZeroRandomness ==
    /\ op = "commit_zero" => var.v.rand = <<0, 0>> /\ com.c = <<0, var.v.value>>
    /\ op = "setup" =>
          /\ ps # Panic
          /\ \A i \in 1..Len(args.xb) : ps.c[i] = <<0, args.xb[i][1].value>>
          /\ \A j \in 1..Len(args.ay) : ps.d[j] = <<0, args.ay[j][2].value>>
          /\ verdict # None => verdict = Ret(TRUE)

ZeroRandomnessWitness ==
    /\ op = "setup" /\ verdict = Ret(TRUE) /\ dims = <<1, 1>> /\ mode = "setup_wi"
    /\ args.xb[1][1].rand = <<0, 0>> /\ args.ay[1][2].rand = <<0, 0>>
    /\ ps.c = <<<<0, 2>>>> /\ ps.d = <<<<0, 1>>>> /\ ps.equation.target # 0
    /\ ps.proof.phi # Zero2x2

(* C29: for every matrix M of any dimension (r, c), including r = 0 (as     *)
(* built by zeros_column(n) and used for m = 0 equations) and c = 0,        *)
(* Matrix::from_vecs(M.to_vecs()) is produced without failure and equals M  *)
(* with the same dim(), so deserializing a serialized gamma gives back      *)
(* gamma.                                                                   *)
VecsRoundTrip ==
    op = "roundtrip" =>
        res # Panic /\ res = args /\ <<res.rows, res.cols>> = <<args.rows, args.cols>>

(* C30 (Proof division is the inverse of proof addition): for any proofs    *)
(* p1, p2, p1 + p2 adds the four entries of phi and the four entries of     *)
(* theta entrywise, p1 / p2 subtracts them entrywise, (p1 + p2) / p2 = p1,  *)
(* and p1 + p2 = p2 + p1.                                                   *)
DivInvertsAdd ==
    op = "proof_add_div" =>
        LET p1 == args[1]
            p2 == args[2]
        IN  /\ EightElements(res.sum) /\ EightElements(res.quot)
            /\ \A i \in 1..2, j \in 1..2 :
                  /\ res.sum.phi.at[i][j] = FAdd(p1.phi.at[i][j], p2.phi.at[i][j])
                  /\ res.sum.theta.at[i][j] = FAdd(p1.theta.at[i][j], p2.theta.at[i][j])
                  /\ res.quot.phi.at[i][j] = FSub(p1.phi.at[i][j], p2.phi.at[i][j])
                  /\ res.quot.theta.at[i][j] = FSub(p1.theta.at[i][j], p2.theta.at[i][j])
            /\ res.back = p1
            /\ res.comm = res.sum

DivInvertsAddWitness ==
    /\ op = "proof_add_div" /\ res.back = args[1] /\ res.sum # args[1]
    /\ res.quot # res.sum /\ res.quot # args[1]
    /\ args[1].phi = Matrix_new(<<<<1, 2>>, <<2, 0>>>>, 2)
    /\ args[2].phi = Matrix_new(<<<<2, 1>>, <<2, 0>>>>, 2)
    /\ res.sum.phi = Matrix_new(<<<<0, 0>>, <<1, 0>>>>, 2)
    /\ res.quot.phi = Matrix_new(<<<<2, 1>>, <<0, 0>>>>, 2)

====
